---- MODULE Spec2Model ----
(***************************************************************************)
(* Verification model of bcache's btree node cache                         *)
(* (libbcache/btree_cache.c) and of the cached-device request path         *)
(* (libbcache/request.c).                                                  *)
(*                                                                         *)
(* Threads run the C functions as sequences of atomic steps; a step ends   *)
(* wherever another thread can observe or change shared state: at every    *)
(* acquisition of btree_cache_lock, at every blocking node lock, at every  *)
(* lock-free access to btree_cache_alloc_lock and to the hash table.       *)
(***************************************************************************)
EXTENDS Integers, Sequences, FiniteSets, TLC

\* ---------------------------------------------------------------- bounds
NThreads == 2       \* threads running cache operations
NNodes == 2         \* struct btree containers that can ever be allocated
NScanNodes == 3     \* hashed nodes the shrinker specification starts with
NSectors == 2       \* length of the longest bio, in units an extent or hole can have
NKeys == 2          \* distinct node pointers (non-zero PTR_HASH values)
MaxLevel == 1       \* btree levels 0..MaxLevel
InitReserve == 1    \* btree_cache_reserve, scaled down from 16 + 8 per root
MaxScan == 4        \* largest sc->nr_to_scan, in pages
btree_pages == 2    \* pages per btree node (a property of the cache set)
NRecentIo == 2      \* RECENT_IO, the struct io entries of a cached device, scaled down
IoWindow == 2       \* msecs_to_jiffies(5000), in ticks of the model's clock
MaxJiffies == 2     \* how far the model's clock runs
MaxCongested == 2   \* largest value of bch_get_congested, in sectors
MaxBypassed == 3    \* how far the bypassed-sectors counter runs
MaxStream == 3      \* bios a submitter sends in streams
MaxCalls == 2       \* calls of check_should_bypass on arbitrary bios
MaxRequests == 1    \* write requests on the cached device

Keys == 1..NKeys
Levels == 0..MaxLevel
LockTypes == {"read", "intent"}

\* ------------------------------------------------------------------ state
VARIABLES
    btree_cache_alloc_lock, \* struct cache_set: task holding the cannibalize slot, 0 = NULL
    mca_wait,               \* struct cache_set: closures (one per thread) on the wait list
    btree_cache_lock,       \* struct cache_set: mutex over the three lists, 0 = free
    btree_cache_used,       \* struct cache_set: nodes that have a data buffer
    btree_cache_reserve,    \* struct cache_set
    btree_cache,            \* struct cache_set: list of hashed nodes (LRU), head first
    btree_cache_freeable,   \* struct cache_set: list of unhashed nodes with data
    btree_cache_freed,      \* struct cache_set: list of containers without data
    btree,                  \* struct btree, per container
    verify_btree_ondisk,    \* debug parameter of the cache set
    th,                     \* per thread: position in the function it runs, and its locals
    search,                 \* struct search of the request on the cached device
    bios,                   \* the bios the request has submitted
    dc,                     \* struct cached_dev, with what it uses of its cache set
    task,                   \* current: sequential_io, sequential_io_avg
    jiffies,                \* the kernel's clock
    stream,                 \* sizes of the bios of the submitter's current contiguous run
    last,                   \* the last call of check_should_bypass: its bio and its result
    cset,                   \* struct cache_set: congestion, btree roots, flags, what was done to it
    out                     \* the last call of a function of the control surface: arguments, result

lists == <<btree_cache, btree_cache_freeable, btree_cache_freed>>
cannibal == <<btree_cache_alloc_lock, mca_wait>>
cachevars == <<btree_cache_lock, btree_cache_used, btree_cache_reserve, lists, btree,
               verify_btree_ondisk>>
reqvars == <<search, bios>>
devvars == <<dc, task, jiffies, stream, last>>
setvars == <<cset, out>>
vars == <<cannibal, cachevars, th, reqvars, devvars, setvars>>

\* The containers and the threads of the specification at hand.
Nodes == DOMAIN btree
Threads == DOMAIN th

\* A thread that is in no function.  ret is the value its last call returned,
\* holds records that its last mca_cannibalize_lock returned 0 and that it has
\* not been through mca_cannibalize_unlock since.
\* k, level, lock_type: the arguments of bch_btree_node_get; parent: the
\* iterator's lock at level + 1, "read", "dropped" (a read lock that was
\* released) or "none" (not read locked); b: the node the function works on;
\* nr, freed, gfp_io: locals of bch_mca_scan; flushed: mca_reap_notrace wrote
\* the node out for this thread.
IdleThread == [pc |-> "idle", cl |-> FALSE, ret |-> "none", holds |-> FALSE,
               k |-> 0, level |-> 0, lock_type |-> "read", parent |-> "none",
               b |-> 0, nr |-> 0, freed |-> 0, gfp_io |-> FALSE, flushed |-> "none"]

\* A container that has not been allocated (kzalloc'ed) yet.
\* seq: the sequence counter of the node's lock, counted where six_unlock_write
\* is a step of its own (the steps of mca_reap_notrace).
NoNode == [alloc |-> FALSE, data |-> FALSE, key |-> 0, level |-> 0, hashed |-> FALSE,
           dirty |-> FALSE, write_in_flight |-> FALSE, accessed |-> FALSE,
           read_error |-> FALSE, write_error |-> FALSE, noevict |-> FALSE,
           write_blocked |-> FALSE, intent |-> 0, write |-> FALSE, readers |-> {},
           seq |-> 0]

\* -------------------------------------------------- cannibalize lock (412-450)

\* cmpxchg(ptr, old, new): the value stored in *ptr afterwards.  The value
\* cmpxchg returns is the previous content of *ptr.
cmpxchg_store_always(cur, old, new) == new
cmpxchg(cur, old, new) == IF cur = old THEN new ELSE cur

\* closure_wake_up(&c->mca_wait): every waiting closure is taken off the list.
closure_wake_up_none(w) == w
closure_wake_up(w) == {}

\* mca_cannibalize_lock, up to the first cmpxchg and the !cl return.
mca_cannibalize_lock(t, cl) ==
    /\ th[t].pc = "idle"
    /\ LET old == btree_cache_alloc_lock IN
       /\ btree_cache_alloc_lock' = cmpxchg(old, 0, t)
       /\ IF old = 0 \/ old = t
          THEN th' = [th EXCEPT ![t] = [@ EXCEPT !.ret = "ok", !.holds = TRUE, !.cl = FALSE]]
          ELSE IF ~cl
          THEN th' = [th EXCEPT ![t] = [@ EXCEPT !.ret = "ENOMEM", !.cl = FALSE]]
          ELSE th' = [th EXCEPT ![t] = [@ EXCEPT !.pc = "lk_wait", !.ret = "none", !.cl = TRUE]]
    /\ UNCHANGED <<mca_wait, cachevars>>

\* closure_wait(&c->mca_wait, cl)
mca_cannibalize_lock_wait(t) ==
    /\ th[t].pc = "lk_wait"
    /\ mca_wait' = mca_wait \cup {t}
    /\ th' = [th EXCEPT ![t].pc = "lk_retry"]
    /\ UNCHANGED <<btree_cache_alloc_lock, cachevars>>

\* "Try again, after adding ourselves to waitlist"
mca_cannibalize_lock_retry(t) ==
    /\ th[t].pc = "lk_retry"
    /\ LET old == btree_cache_alloc_lock IN
       /\ btree_cache_alloc_lock' = cmpxchg(old, 0, t)
       /\ IF old = 0 \/ old = t
          THEN th' = [th EXCEPT ![t].pc = "lk_raced"]
          ELSE th' = [th EXCEPT ![t] = [@ EXCEPT !.pc = "idle", !.ret = "EAGAIN", !.cl = FALSE]]
    /\ UNCHANGED <<mca_wait, cachevars>>

\* "We raced": closure_wake_up, goto success
mca_cannibalize_lock_raced(t) ==
    /\ th[t].pc = "lk_raced"
    /\ mca_wait' = closure_wake_up(mca_wait)
    /\ th' = [th EXCEPT ![t] = [@ EXCEPT !.pc = "idle", !.ret = "ok", !.holds = TRUE, !.cl = FALSE]]
    /\ UNCHANGED <<btree_cache_alloc_lock, cachevars>>

\* mca_cannibalize_unlock: the test of btree_cache_alloc_lock == current
mca_cannibalize_unlock(t) ==
    /\ th[t].pc = "idle"
    /\ IF btree_cache_alloc_lock = t
       THEN th' = [th EXCEPT ![t] = [@ EXCEPT !.pc = "ul_clear", !.ret = "none"]]
       ELSE th' = [th EXCEPT ![t] = [@ EXCEPT !.ret = "none", !.holds = FALSE]]
    /\ UNCHANGED <<btree_cache_alloc_lock, mca_wait, cachevars>>

\* c->btree_cache_alloc_lock = NULL
mca_cannibalize_unlock_clear(t) ==
    /\ th[t].pc = "ul_clear"
    /\ btree_cache_alloc_lock' = 0
    /\ th' = [th EXCEPT ![t] = [@ EXCEPT !.pc = "ul_wake", !.holds = FALSE]]
    /\ UNCHANGED <<mca_wait, cachevars>>

\* closure_wake_up(&c->mca_wait)
mca_cannibalize_unlock_wake(t) ==
    /\ th[t].pc = "ul_wake"
    /\ mca_wait' = closure_wake_up(mca_wait)
    /\ th' = [th EXCEPT ![t].pc = "idle"]
    /\ UNCHANGED <<btree_cache_alloc_lock, cachevars>>

\* ------------------------------------------------------------ list helpers

Range(s) == {s[i] : i \in 1..Len(s)}
Min(S) == CHOOSE x \in S : \A y \in S : x <= y
list_del_none(l, x) == l
list_del(l, x) == SelectSeq(l, LAMBDA y : y # x)
\* list_add(&b->list, head): b becomes the first entry.
list_add(l, x) == <<x>> \o list_del(l, x)
\* list_move_tail(&c->btree_cache, &t->list) on the list head: the entry at
\* position i becomes the first one, the entries before it follow the last.
list_rotate(l, i) ==
    IF i > Len(l) THEN l ELSE SubSeq(l, i, Len(l)) \o SubSeq(l, 1, i - 1)

\* A thread returning r from the function it is in.
Return(t, r) == [th EXCEPT ![t] = [IdleThread EXCEPT !.ret = r, !.holds = th[t].holds]]

\* ---------------------------------------------------------------- six locks
\* The three-mode node lock: many readers, one intent holder (shared with
\* readers), write held by the intent holder and excluding readers.
six_trylock_intent(nd) == nd.intent = 0
six_trylock_write(nd) == nd.readers = {} /\ ~nd.write
six_trylock_read(nd) == ~nd.write
six_unlock_write_intent(nd) == [nd EXCEPT !.write = FALSE, !.intent = 0]

\* ------------------------------------------------------- mca_reap (143-196)

\* mca_reap_notrace returns 0: both trylocks succeed, the node has no write
\* error, is not marked noevict, has nothing on its write_blocked list and,
\* without flush, is neither dirty nor being written.
mca_reap_without_locks(nd, flush) ==
    /\ ~(nd.write_error \/ nd.noevict)
    /\ ~nd.write_blocked
    /\ (flush \/ ~(nd.dirty \/ nd.write_in_flight))
mca_reap_ignores_dirty(nd, flush) ==
    six_trylock_intent(nd) /\ six_trylock_write(nd)
mca_reap_notrace(nd, flush) ==
    /\ six_trylock_intent(nd)
    /\ six_trylock_write(nd)
    /\ ~(nd.write_error \/ nd.noevict)
    /\ ~nd.write_blocked
    /\ (flush \/ ~(nd.dirty \/ nd.write_in_flight))

\* mca_can_free(c)
mca_can_free == IF btree_cache_used - btree_cache_reserve > 0
                THEN btree_cache_used - btree_cache_reserve ELSE 0

\* mca_hash_remove: out of the hash table, pointer hash zeroed.
mca_hash_remove_keeps_key(nd) == [nd EXCEPT !.hashed = FALSE]
mca_hash_remove(nd) == [nd EXCEPT !.hashed = FALSE, !.key = 0]

\* ----------------------------------------------------- bch_mca_scan (198-298)

\* The nodes the loop over btree_cache_freeable frees, in order: the first
\* three entries are skipped, the loop stops once freed reaches nr.
scan_freeable_none(l, i, freed, nr) == <<>>
RECURSIVE scan_freeable(_, _, _, _)
scan_freeable(l, i, freed, nr) ==
    IF i > Len(l) \/ freed >= nr THEN <<>>
    ELSE IF i > 3 /\ mca_reap_notrace(btree[l[i]], FALSE)
         THEN <<l[i]>> \o scan_freeable(l, i + 1, freed + 1, nr)
         ELSE scan_freeable(l, i + 1, freed, nr)

\* mca_data_free on each node of fs in turn (list_move puts the node first).
RECURSIVE list_add_all(_, _)
list_add_all(l, fs) == IF fs = <<>> THEN l ELSE list_add_all(list_add(l, Head(fs)), Tail(fs))

\* One walk over btree_cache with btree_cache_lock held, from the list head
\* ("restart") to the point where the lock is dropped: at the end of the list,
\* at the break on freed >= nr, or after mca_data_free of the first node that
\* is not accessed and can be reaped.  bt, used, fl, fd are the nodes, the
\* count and the freeable/freed lists as the caller left them.
scan_lru(t, nr, freed, bt, used, fl, fd) ==
    LET L == btree_cache
        cand == {i \in 1..Len(L) : ~bt[L[i]].accessed /\ mca_reap_notrace(bt[L[i]], FALSE)}
        passed(i) == {L[j] : j \in 1..(i - 1)}
        clear(S) == [x \in Nodes |-> IF x \in S THEN [bt[x] EXCEPT !.accessed = FALSE] ELSE bt[x]]
    IN  /\ btree_cache_lock' = 0
        /\ btree_cache_freeable' = fl
        /\ IF L # <<>> /\ freed >= nr
           THEN \* "Save position", break
                /\ btree_cache' = list_rotate(L, 2)
                /\ btree' = bt
                /\ btree_cache_used' = used
                /\ btree_cache_freed' = fd
                /\ th' = Return(t, "scan_done")
           ELSE IF cand = {}
           THEN \* the walk passes over every node
                /\ btree_cache' = L
                /\ btree' = clear(Range(L))
                /\ btree_cache_used' = used
                /\ btree_cache_freed' = fd
                /\ th' = Return(t, "scan_done")
           ELSE LET i == Min(cand)
                    b == L[i]
                IN  /\ btree_cache' = list_del(list_rotate(L, i + 1), b)
                    /\ btree' = [clear(passed(i)) EXCEPT ![b].intent = t, ![b].write = TRUE,
                                                         ![b].data = FALSE]
                    /\ btree_cache_used' = used - 1
                    /\ btree_cache_freed' = list_add(fd, b)
                    /\ th' = [th EXCEPT ![t].pc = "scan_remove", ![t].b = b,
                                        ![t].nr = nr, ![t].freed = freed + 1]

\* bch_mca_scan up to mutex_lock: the tests of btree_cache_alloc_lock.
bch_mca_scan(t, nr_to_scan, gfp_io) ==
    /\ th[t].pc = "idle"
    /\ IF btree_cache_alloc_lock # 0
       THEN th' = Return(t, "SHRINK_STOP")
       ELSE th' = [th EXCEPT ![t] = [@ EXCEPT !.pc = "scan_lock", !.ret = "none",
                                              !.nr = nr_to_scan, !.gfp_io = gfp_io]]
    /\ UNCHANGED <<cannibal, cachevars>>

\* mutex_trylock fails without __GFP_IO: return -1
bch_mca_scan_trylock_fails(t) ==
    /\ th[t].pc = "scan_lock"
    /\ ~th[t].gfp_io
    /\ btree_cache_lock # 0
    /\ th' = Return(t, "scan_busy")
    /\ UNCHANGED <<cannibal, cachevars>>

\* mutex_lock, or a mutex_trylock that succeeds
bch_mca_scan_lock(t) ==
    /\ th[t].pc = "scan_lock"
    /\ btree_cache_lock = 0
    /\ btree_cache_lock' = t
    /\ th' = [th EXCEPT ![t].pc = "scan_locked"]
    /\ UNCHANGED <<cannibal, btree_cache_used, btree_cache_reserve, lists, btree,
                   verify_btree_ondisk>>

\* With btree_cache_lock held: nr is cut to mca_can_free, the freeable list is
\* walked, then btree_cache.
bch_mca_scan_locked(t) ==
    /\ th[t].pc = "scan_locked"
    /\ LET nr0 == th[t].nr \div btree_pages
           nr == IF nr0 < mca_can_free THEN nr0 ELSE mca_can_free
           fs == scan_freeable(btree_cache_freeable, 1, 0, nr)
           bt == [x \in Nodes |-> IF x \in Range(fs) THEN [btree[x] EXCEPT !.data = FALSE]
                                                      ELSE btree[x]]
           fl == SelectSeq(btree_cache_freeable, LAMBDA x : x \notin Range(fs))
       IN scan_lru(t, nr, Len(fs), bt, btree_cache_used - Len(fs), fl,
                   list_add_all(btree_cache_freed, fs))
    /\ UNCHANGED <<cannibal, btree_cache_reserve, verify_btree_ondisk>>

\* After mutex_unlock: mca_hash_remove, the node's locks are dropped, and the
\* scan is over if freed >= nr.
bch_mca_scan_remove(t) ==
    /\ th[t].pc = "scan_remove"
    /\ btree' = [btree EXCEPT ![th[t].b] = six_unlock_write_intent(mca_hash_remove(@))]
    /\ IF th[t].freed >= th[t].nr
       THEN th' = Return(t, "scan_done")
       ELSE th' = [th EXCEPT ![t].pc = "scan_relock", ![t].b = 0]
    /\ UNCHANGED <<cannibal, btree_cache_lock, btree_cache_used, btree_cache_reserve, lists,
                   verify_btree_ondisk>>

\* The lock cannot be retaken without __GFP_IO: goto out
bch_mca_scan_relock_fails(t) ==
    /\ th[t].pc = "scan_relock"
    /\ ~th[t].gfp_io
    /\ btree_cache_lock # 0
    /\ th' = Return(t, "scan_done")
    /\ UNCHANGED <<cannibal, cachevars>>

\* The lock is retaken
bch_mca_scan_relock(t) ==
    /\ th[t].pc = "scan_relock"
    /\ btree_cache_lock = 0
    /\ btree_cache_lock' = t
    /\ th' = [th EXCEPT ![t].pc = "scan_restart"]
    /\ UNCHANGED <<cannibal, btree_cache_used, btree_cache_reserve, lists, btree,
                   verify_btree_ondisk>>

\* goto restart
bch_mca_scan_restart(t) ==
    /\ th[t].pc = "scan_restart"
    /\ scan_lru(t, th[t].nr, th[t].freed, btree, btree_cache_used,
                btree_cache_freeable, btree_cache_freed)
    /\ UNCHANGED <<cannibal, btree_cache_reserve, verify_btree_ondisk>>

\* -------------------------------------------------------- mca_alloc (452-544)

\* "out:" of mca_alloc: b->flags = 0; the node is intent and write locked by t.
mca_alloc_out(nd, t) ==
    [nd EXCEPT !.dirty = FALSE, !.write_in_flight = FALSE, !.accessed = FALSE,
               !.read_error = FALSE, !.write_error = FALSE, !.noevict = FALSE,
               !.intent = t, !.write = TRUE]

\* The first entry of list l that mca_reap_notrace(.., flush) takes, 0 if none.
first_reap(l, flush) ==
    LET ok == {i \in 1..Len(l) : mca_reap_notrace(btree[l[i]], flush)}
    IN IF ok = {} THEN 0 ELSE l[Min(ok)]

\* list_for_each_entry_reverse: the last such entry.
last_reap_from_head(l, flush) == first_reap(l, flush)
last_reap(l, flush) ==
    LET ok == {i \in 1..Len(l) : mca_reap_notrace(btree[l[i]], flush)}
    IN IF ok = {} THEN 0 ELSE l[CHOOSE i \in ok : \A j \in ok : j <= i]

\* mca_reap_notrace with flush on a dirty node: which write function it calls.
mca_reap_write(nd) ==
    IF ~nd.dirty THEN "none"
    ELSE IF verify_btree_ondisk THEN "bch_btree_node_write" ELSE "__bch_btree_node_write"

\* mca_cannibalize, entered with btree_cache_lock held by t, the nodes being bt:
\* the victim is the last entry of btree_cache that can be reaped without
\* flush, else the last one that can be locked.  A dirty victim is written
\* out; the thread then waits for the write with the list lock and the node's
\* locks held.  When no entry can be locked the thread spins with the list
\* lock held.
mca_cannibalize(t, bt) ==
    LET b1 == last_reap(btree_cache, FALSE)
        b2 == last_reap(btree_cache, TRUE)
    IN  IF b1 # 0
        THEN /\ btree' = [bt EXCEPT ![b1].intent = t, ![b1].write = TRUE]
             /\ btree_cache' = list_del(btree_cache, b1)
             /\ btree_cache_lock' = 0
             /\ th' = [th EXCEPT ![t].pc = "cann_remove", ![t].b = b1]
        ELSE IF b2 # 0
        THEN /\ btree' = [bt EXCEPT ![b2].intent = t, ![b2].write = TRUE,
                                    ![b2].write_in_flight = @ \/ bt[b2].dirty,
                                    ![b2].dirty = FALSE]
             /\ btree_cache' = btree_cache
             /\ btree_cache_lock' = t
             /\ th' = [th EXCEPT ![t].pc = "cann_wait", ![t].b = b2,
                                 ![t].flushed = mca_reap_write(bt[b2])]
        ELSE /\ btree' = bt
             /\ btree_cache' = btree_cache
             /\ btree_cache_lock' = t
             /\ th' = [th EXCEPT ![t].pc = "cann_spin"]

\* "err:" of mca_alloc, with btree_cache_lock held by t and the nodes as bt.
mca_alloc_err(t, bt) ==
    IF btree_cache_alloc_lock = t
    THEN mca_cannibalize(t, bt)
    ELSE /\ btree_cache_lock' = 0
         /\ btree' = bt
         /\ th' = Return(t, "ENOMEM")
         /\ UNCHANGED btree_cache

\* mca_alloc: mutex_lock(&c->btree_cache_lock)
mca_alloc(t) ==
    /\ th[t].pc = "fill_alloc"
    /\ btree_cache_lock = 0
    /\ btree_cache_lock' = t
    /\ th' = [th EXCEPT ![t].pc = "alloc_locked"]
    /\ UNCHANGED <<cannibal, btree_cache_used, btree_cache_reserve, lists, btree,
                   verify_btree_ondisk>>

\* mca_alloc takes a reapable node from the freeable list.
mca_alloc_freeable(t) ==
    /\ th[t].pc = "alloc_locked"
    /\ btree_cache_lock' = 0
    /\ first_reap(btree_cache_freeable, FALSE) # 0
    /\ LET b == first_reap(btree_cache_freeable, FALSE) IN
       /\ btree' = [btree EXCEPT ![b] = mca_alloc_out(@, t)]
       /\ btree_cache_freeable' = list_del(btree_cache_freeable, b)
       /\ th' = [th EXCEPT ![t].pc = "fill_copy", ![t].b = b]
    /\ UNCHANGED <<cannibal, btree_cache_used, btree_cache_reserve,
                   btree_cache, btree_cache_freed, verify_btree_ondisk>>

\* mca_alloc takes a container from the freed list; mca_data_alloc gives it a
\* buffer (ok) or fails, which moves it to the head of the freed list and
\* leads to "err:".
mca_alloc_freed(t, ok) ==
    /\ th[t].pc = "alloc_locked"
    /\ first_reap(btree_cache_freeable, FALSE) = 0
    /\ first_reap(btree_cache_freed, FALSE) # 0
    /\ LET b == first_reap(btree_cache_freed, FALSE) IN
       IF ok
       THEN /\ btree' = [btree EXCEPT ![b] = mca_alloc_out([@ EXCEPT !.data = TRUE], t)]
            /\ btree_cache_used' = btree_cache_used + 1
            /\ btree_cache_freed' = list_del(btree_cache_freed, b)
            /\ th' = [th EXCEPT ![t].pc = "fill_copy", ![t].b = b]
            /\ btree_cache_lock' = 0
            /\ UNCHANGED btree_cache
       ELSE /\ btree_cache_freed' = list_add(btree_cache_freed, b)
            /\ mca_alloc_err(t, btree)
            /\ UNCHANGED btree_cache_used
    /\ UNCHANGED <<cannibal, btree_cache_reserve, btree_cache_freeable, verify_btree_ondisk>>

\* Both lists gave nothing: mca_bucket_alloc.  kz: kzalloc succeeds, ok:
\* mca_data_alloc gives the buffer.  A container whose buffer could not be
\* allocated stays on the freed list.  Once the model's NNodes containers
\* exist kzalloc fails.
mca_alloc_bucket(t, kz, ok) ==
    /\ th[t].pc = "alloc_locked"
    /\ first_reap(btree_cache_freeable, FALSE) = 0
    /\ first_reap(btree_cache_freed, FALSE) = 0
    /\ LET new == {n \in Nodes : ~btree[n].alloc} IN
       IF kz /\ new # {}
       THEN LET b == Min(new) IN
            IF ok
            THEN /\ btree' = [btree EXCEPT ![b] = mca_alloc_out([@ EXCEPT !.alloc = TRUE,
                                                                        !.data = TRUE], t)]
                 /\ btree_cache_used' = btree_cache_used + 1
                 /\ th' = [th EXCEPT ![t].pc = "fill_copy", ![t].b = b]
                 /\ btree_cache_lock' = 0
                 /\ UNCHANGED <<btree_cache, btree_cache_freed>>
            ELSE /\ btree_cache_freed' = list_add(btree_cache_freed, b)
                 /\ mca_alloc_err(t, [btree EXCEPT ![b].alloc = TRUE])
                 /\ UNCHANGED btree_cache_used
       ELSE /\ mca_alloc_err(t, btree)
            /\ UNCHANGED <<btree_cache_used, btree_cache_freed>>
    /\ UNCHANGED <<cannibal, btree_cache_reserve, btree_cache_freeable, verify_btree_ondisk>>

\* wait_on_bit_io in mca_reap_notrace under mca_cannibalize returns: the
\* victim leaves btree_cache and the list lock is dropped.
mca_cannibalize_waited(t) ==
    /\ th[t].pc = "cann_wait"
    /\ ~btree[th[t].b].write_in_flight
    /\ btree_cache' = list_del(btree_cache, th[t].b)
    /\ btree_cache_lock' = 0
    /\ th' = [th EXCEPT ![t].pc = "cann_remove"]
    /\ UNCHANGED <<cannibal, btree_cache_used, btree_cache_reserve, btree_cache_freeable,
                   btree_cache_freed, btree, verify_btree_ondisk>>

\* The busy-wait of mca_cannibalize goes round again.
mca_cannibalize_again(t) ==
    /\ th[t].pc = "cann_spin"
    /\ last_reap(btree_cache, TRUE) # 0
    /\ mca_cannibalize(t, btree)
    /\ UNCHANGED <<cannibal, btree_cache_used, btree_cache_reserve, btree_cache_freeable,
                   btree_cache_freed, verify_btree_ondisk>>

\* mca_alloc after mca_cannibalize: mca_hash_remove, "out:".
mca_alloc_cannibalized(t) ==
    /\ th[t].pc = "cann_remove"
    /\ btree' = [btree EXCEPT ![th[t].b] = mca_alloc_out(mca_hash_remove(@), t)]
    /\ th' = [th EXCEPT ![t].pc = "fill_copy"]
    /\ UNCHANGED <<cannibal, btree_cache_lock, btree_cache_used, btree_cache_reserve, lists,
                   verify_btree_ondisk>>

\* ---------------------------------------------- bch_btree_node_fill (547-594)

\* bkey_copy(&b->key, k)
bch_btree_node_fill_copy(t) ==
    /\ th[t].pc = "fill_copy"
    /\ btree' = [btree EXCEPT ![th[t].b].key = th[t].k]
    /\ th' = [th EXCEPT ![t].pc = "fill_insert"]
    /\ UNCHANGED <<cannibal, btree_cache_lock, btree_cache_used, btree_cache_reserve, lists,
                   verify_btree_ondisk>>

\* rhashtable_lookup_insert_fast: the insertion fails iff the table holds a
\* node with the same key.
mca_hash_insert_always(b) == TRUE
mca_hash_insert(b) ==
    ~\E n \in Nodes : n # b /\ btree[n].hashed /\ btree[n].key = btree[b].key

\* mca_hash_insert up to the table insertion; a fill that lost the race
\* marks its node as unhashed.
bch_btree_node_fill_insert(t) ==
    /\ th[t].pc = "fill_insert"
    /\ LET b == th[t].b IN
       IF mca_hash_insert(b)
       THEN /\ btree' = [btree EXCEPT ![b].level = th[t].level, ![b].hashed = TRUE]
            /\ th' = [th EXCEPT ![t].pc = "fill_list"]
       ELSE /\ btree' = [btree EXCEPT ![b].level = th[t].level, ![b].key = 0]
            /\ th' = [th EXCEPT ![t].pc = "fill_lost"]
    /\ UNCHANGED <<cannibal, btree_cache_lock, btree_cache_used, btree_cache_reserve, lists,
                   verify_btree_ondisk>>

\* btree_node_unlock(iter, level + 1) if btree_node_read_locked(iter, level + 1)
keep_parent(p) == p
drop_parent(p) == IF p = "read" THEN "dropped" ELSE p

\* six_unlock_type(&b->lock, lock_type)
six_unlock_type(nd, t, lock_type) ==
    IF lock_type = "read" THEN [nd EXCEPT !.readers = @ \ {t}]
    ELSE [nd EXCEPT !.intent = 0]

\* btree_node_read_error(b)
btree_node_read_error_ignored(nd) == FALSE
btree_node_read_error(nd) == nd.read_error

\* The end of bch_btree_node_get, with b locked in lock_type by t (nd is the
\* node in that state): a node with a read error is unlocked and -EIO is
\* returned, otherwise the node is returned.  The accessed bit is set only
\* if it is set already.
node_get_return(t, b, nd, par) ==
    LET nd1 == [nd EXCEPT !.accessed = IF nd.accessed THEN TRUE ELSE @] IN
    IF btree_node_read_error(nd1)
    THEN /\ btree' = [btree EXCEPT ![b] = six_unlock_type(nd1, t, th[t].lock_type)]
         /\ th' = Return(t, "EIO")
    ELSE /\ btree' = [btree EXCEPT ![b] = nd1]
         /\ th' = [th EXCEPT ![t].pc = "holding", ![t].ret = "ok", ![t].parent = par]

\* The node is in the table: list_add under btree_cache_lock, the parent's
\* read lock is dropped, bch_btree_node_read (err: it fails), the write lock
\* is dropped and the intent lock downgraded for a read request.
bch_btree_node_fill_read(t, err) ==
    /\ th[t].pc = "fill_list"
    /\ btree_cache_lock = 0
    /\ btree_cache' = list_add(btree_cache, th[t].b)
    /\ LET b == th[t].b
           nd == [btree[b] EXCEPT !.read_error = err, !.write = FALSE,
                                  !.intent = IF th[t].lock_type = "read" THEN 0 ELSE t,
                                  !.readers = IF th[t].lock_type = "read" THEN {t} ELSE {}]
       IN node_get_return(t, b, nd, drop_parent(th[t].parent))
    /\ UNCHANGED <<cannibal, btree_cache_lock, btree_cache_used, btree_cache_reserve,
                   btree_cache_freeable, btree_cache_freed, verify_btree_ondisk>>

\* A fill that lost the race: the node goes to the freeable list, its locks
\* are dropped, bch_btree_node_get retries.
bch_btree_node_fill_lost(t) ==
    /\ th[t].pc = "fill_lost"
    /\ btree_cache_lock = 0
    /\ btree_cache_freeable' = list_add(btree_cache_freeable, th[t].b)
    /\ btree' = [btree EXCEPT ![th[t].b] = six_unlock_write_intent(@)]
    /\ th' = [th EXCEPT ![t].pc = "get_find", ![t].b = 0]
    /\ UNCHANGED <<cannibal, btree_cache_lock, btree_cache_used, btree_cache_reserve,
                   btree_cache, btree_cache_freed, verify_btree_ondisk>>

\* ----------------------------------------------- bch_btree_node_get (605-703)

\* mca_find: the node in the hash table whose key is k, 0 if there is none.
mca_find(k) ==
    LET found == {n \in Nodes : btree[n].hashed /\ btree[n].key = k}
    IN IF found = {} THEN 0 ELSE CHOOSE n \in found : TRUE

\* "retry:": the lookup.  A cached node is locked only after the read lock on
\* the parent has been dropped.
node_get_find(t, k, level, lock_type, parent) ==
    /\ th' = [th EXCEPT ![t] =
                [@ EXCEPT !.ret = "none", !.k = k, !.level = level, !.lock_type = lock_type,
                          !.flushed = "none",
                          !.b = mca_find(k),
                          !.pc = IF mca_find(k) = 0 THEN "fill_alloc" ELSE "get_lock",
                          !.parent = IF mca_find(k) = 0 THEN parent ELSE drop_parent(parent)]]
    /\ UNCHANGED <<cannibal, cachevars>>

bch_btree_node_get(t, k, level, lock_type, parent) ==
    /\ th[t].pc = "idle"
    /\ node_get_find(t, k, level, lock_type, parent)

bch_btree_node_get_retry(t) ==
    /\ th[t].pc = "get_find"
    /\ node_get_find(t, th[t].k, th[t].level, th[t].lock_type, th[t].parent)

\* btree_node_lock returns false: -EINTR
bch_btree_node_get_lock_fails(t) ==
    /\ th[t].pc = "get_lock"
    /\ th' = Return(t, "EINTR")
    /\ UNCHANGED <<cannibal, cachevars>>

\* The test made on the node once it is locked.
node_get_stale_unchecked(nd, k, level) == FALSE
node_get_stale(nd, k, level) == nd.key # k \/ nd.level # level

\* btree_node_lock took the lock.  fault: race_fault(); relock: what
\* btree_node_relock(iter, level + 1) returns if it is called.
bch_btree_node_get_locked(t, fault, relock) ==
    /\ th[t].pc = "get_lock"
    /\ LET b == th[t].b
           nd == IF th[t].lock_type = "read"
                 THEN [btree[b] EXCEPT !.readers = @ \cup {t}]
                 ELSE [btree[b] EXCEPT !.intent = t]
       IN /\ IF th[t].lock_type = "read" THEN six_trylock_read(btree[b])
                                         ELSE six_trylock_intent(btree[b])
          /\ IF node_get_stale(nd, th[t].k, th[t].level) \/ fault
             THEN /\ btree' = btree
                  /\ IF relock
                     THEN th' = [th EXCEPT ![t].pc = "get_find", ![t].b = 0,
                                   ![t].parent = IF @ = "dropped" THEN "read" ELSE @]
                     ELSE th' = Return(t, "EINTR")
             ELSE node_get_return(t, b, nd, th[t].parent)
    /\ UNCHANGED <<cannibal, btree_cache_lock, btree_cache_used, btree_cache_reserve, lists,
                   verify_btree_ondisk>>

\* The caller of bch_btree_node_get is done with the node it was given.
btree_node_unlock(t) ==
    /\ th[t].pc = "holding"
    /\ btree' = [btree EXCEPT ![th[t].b] = six_unlock_type(@, t, th[t].lock_type)]
    /\ th' = Return(t, "none")
    /\ UNCHANGED <<cannibal, btree_cache_lock, btree_cache_used, btree_cache_reserve, lists,
                   verify_btree_ondisk>>

\* ------------------------------------------------- users of a locked node
\* What the update and I/O code does to a node it holds locked, as far as the
\* cache sees it: the flags of struct btree.

\* An update through an intent lock leaves the node dirty.
set_btree_node_dirty(t) ==
    /\ th[t].pc = "holding"
    /\ th[t].lock_type = "intent"
    /\ btree[th[t].b].readers = {}
    /\ ~btree[th[t].b].dirty
    /\ btree' = [btree EXCEPT ![th[t].b].dirty = TRUE]
    /\ UNCHANGED <<cannibal, btree_cache_lock, btree_cache_used, btree_cache_reserve, lists,
                   verify_btree_ondisk, th>>

set_btree_node_accessed(t) ==
    /\ th[t].pc = "holding"
    /\ ~btree[th[t].b].accessed
    /\ btree' = [btree EXCEPT ![th[t].b].accessed = TRUE]
    /\ UNCHANGED <<cannibal, btree_cache_lock, btree_cache_used, btree_cache_reserve, lists,
                   verify_btree_ondisk, th>>

\* A write of a dirty node starts: the node is clean, the write in flight.
bch_btree_node_write(t) ==
    /\ th[t].pc = "holding"
    /\ btree[th[t].b].dirty
    /\ ~btree[th[t].b].write_in_flight
    /\ btree' = [btree EXCEPT ![th[t].b].dirty = FALSE, ![th[t].b].write_in_flight = TRUE]
    /\ UNCHANGED <<cannibal, btree_cache_lock, btree_cache_used, btree_cache_reserve, lists,
                   verify_btree_ondisk, th>>

\* The write completes.
btree_node_write_done(n) ==
    /\ btree[n].write_in_flight
    /\ btree' = [btree EXCEPT ![n].write_in_flight = FALSE]
    /\ UNCHANGED <<cannibal, btree_cache_lock, btree_cache_used, btree_cache_reserve, lists,
                   verify_btree_ondisk, th>>

\* ------------------------------------- mca_reap_notrace, step by step (143-186)

MaxSeq == 2             \* how far a node's lock sequence counter runs

\* The value mca_reap_notrace returns on failure.
ENOMEM == 12

\* six_unlock_write: the sequence counter of the lock is bumped.
six_unlock_write(nd) == [nd EXCEPT !.write = FALSE, !.seq = @ + 1]

\* six_unlock_intent
six_unlock_intent(nd) == [nd EXCEPT !.intent = 0]

\* Lines 152-163: the tests that end in out_unlock.
reap_rejects_never(nd, flush) == FALSE
reap_rejects(nd, flush) ==
    \/ nd.write_error \/ nd.noevict
    \/ nd.write_blocked
    \/ ~flush /\ (nd.dirty \/ nd.write_in_flight)

\* mca_reap_notrace returns v.
reap_return(t, v) ==
    /\ th' = [th EXCEPT ![t].pc = IF v = 0 THEN "reaped" ELSE "idle"]
    /\ out' = [out EXCEPT !.ret = [val |-> v, done |-> TRUE]]

\* mca_reap_notrace(c, b, flush) is called by the thread that holds
\* btree_cache_lock.  out keeps the node and the lists as they are at the call.
mca_reap_call(t, b, flush) ==
    /\ btree_cache_lock = t
    /\ th[t].pc = "idle"
    /\ btree[b].seq < MaxSeq
    /\ th' = [th EXCEPT ![t].pc = "reap_intent", ![t].b = b]
    /\ out' = [fn |-> "mca_reap_notrace",
               arg |-> [t |-> t, b |-> b, flush |-> flush, node |-> btree[b],
                        lists |-> lists, env |-> FALSE],
               ret |-> [val |-> 0, done |-> FALSE]]
    /\ UNCHANGED <<cset, cannibal, cachevars>>

\* Line 147: six_trylock_intent.
reap_trylock_intent(t) ==
    /\ th[t].pc = "reap_intent"
    /\ IF six_trylock_intent(btree[th[t].b])
       THEN /\ btree' = [btree EXCEPT ![th[t].b].intent = t]
            /\ th' = [th EXCEPT ![t].pc = "reap_write"]
            /\ out' = out
       ELSE /\ btree' = btree
            /\ reap_return(t, -ENOMEM)
    /\ UNCHANGED <<cset, cannibal, btree_cache_lock, btree_cache_used, btree_cache_reserve,
                   lists, verify_btree_ondisk>>

\* Line 150: six_trylock_write.
reap_trylock_write(t) ==
    /\ th[t].pc = "reap_write"
    /\ IF six_trylock_write(btree[th[t].b])
       THEN /\ btree' = [btree EXCEPT ![th[t].b].write = TRUE]
            /\ th' = [th EXCEPT ![t].pc = "reap_check"]
       ELSE /\ btree' = btree
            /\ th' = [th EXCEPT ![t].pc = "reap_unlock_intent"]
    /\ UNCHANGED <<setvars, cannibal, btree_cache_lock, btree_cache_used,
                   btree_cache_reserve, lists, verify_btree_ondisk>>

\* Lines 153-176: the tests, and the write of a dirty node.
reap_check(t) ==
    LET b == th[t].b IN
    /\ th[t].pc = "reap_check"
    /\ IF reap_rejects(btree[b], out.arg.flush)
       THEN /\ btree' = btree
            /\ th' = [th EXCEPT ![t].pc = "reap_unlock"]
       ELSE /\ btree' = IF btree[b].dirty
                        THEN [btree EXCEPT ![b].dirty = FALSE, ![b].write_in_flight = TRUE]
                        ELSE btree
            /\ th' = [th EXCEPT ![t].pc = "reap_wait",
                                ![t].flushed = mca_reap_write(btree[b])]
    /\ UNCHANGED <<setvars, cannibal, btree_cache_lock, btree_cache_used,
                   btree_cache_reserve, lists, verify_btree_ondisk>>

\* Lines 179-182: wait_on_bit_io until no write is in flight, return 0.
reap_wait(t) ==
    /\ th[t].pc = "reap_wait"
    /\ ~btree[th[t].b].write_in_flight
    /\ reap_return(t, 0)
    /\ UNCHANGED <<cset, cannibal, cachevars>>

\* out_unlock: six_unlock_write.
reap_unlock(t) ==
    /\ th[t].pc = "reap_unlock"
    /\ btree' = [btree EXCEPT ![th[t].b] = six_unlock_write(@)]
    /\ th' = [th EXCEPT ![t].pc = "reap_unlock_intent"]
    /\ UNCHANGED <<setvars, cannibal, btree_cache_lock, btree_cache_used,
                   btree_cache_reserve, lists, verify_btree_ondisk>>

\* out_unlock_intent: six_unlock_intent, return -ENOMEM.
reap_unlock_intent(t) ==
    /\ th[t].pc = "reap_unlock_intent"
    /\ btree' = [btree EXCEPT ![th[t].b] = six_unlock_intent(@)]
    /\ reap_return(t, -ENOMEM)
    /\ UNCHANGED <<cset, cannibal, btree_cache_lock, btree_cache_used, btree_cache_reserve,
                   lists, verify_btree_ondisk>>

\* The caller of a successful mca_reap_notrace is done with the node and
\* unlocks it (as bch_mca_scan does at lines 244-245).
reap_caller_unlock(t) ==
    /\ th[t].pc = "reaped"
    /\ btree' = [btree EXCEPT ![th[t].b] = six_unlock_intent(six_unlock_write(@))]
    /\ th' = [th EXCEPT ![t].pc = "idle"]
    /\ out' = [out EXCEPT !.arg.env = TRUE]
    /\ UNCHANGED <<cset, cannibal, btree_cache_lock, btree_cache_used, btree_cache_reserve,
                   lists, verify_btree_ondisk>>

\* Another user of the node, a thread that does not hold btree_cache_lock:
\* it takes or drops a read or an intent lock.  out notes that the node was
\* touched from outside the call.
node_user(u, b) ==
    /\ u # btree_cache_lock
    /\ \/ /\ u \notin btree[b].readers /\ six_trylock_read(btree[b])
          /\ btree' = [btree EXCEPT ![b].readers = @ \cup {u}]
       \/ /\ u \in btree[b].readers
          /\ btree' = [btree EXCEPT ![b].readers = @ \ {u}]
       \/ /\ six_trylock_intent(btree[b])
          /\ btree' = [btree EXCEPT ![b].intent = u]
       \/ /\ btree[b].intent = u /\ ~btree[b].write
          /\ btree' = [btree EXCEPT ![b] = six_unlock_intent(@)]
    /\ out' = IF out.fn = "mca_reap_notrace" THEN [out EXCEPT !.arg.env = TRUE] ELSE out
    /\ UNCHANGED <<cset, cannibal, btree_cache_lock, btree_cache_used, btree_cache_reserve,
                   lists, verify_btree_ondisk, th>>

\* The write of a node ends while a call may be running.
reap_write_done(b) ==
    /\ btree_node_write_done(b)
    /\ out' = IF out.fn = "mca_reap_notrace" /\ th[out.arg.t].pc # "reap_wait"
              THEN [out EXCEPT !.arg.env = TRUE] ELSE out
    /\ cset' = cset

\* ---------------------------------------------- bch_fs_btree_exit (315-360)

\* The cache is torn down: every node's dirty bit is cleared and its data
\* freed, every container is freed.  It is called when nothing runs in the
\* cache any more, no node is locked and no write is in flight (what
\* __mca_data_free asserts).
bch_fs_btree_exit ==
    /\ \A t \in Threads : th[t].pc = "idle"
    /\ btree_cache_lock = 0
    /\ \A n \in Nodes : /\ btree[n].intent = 0 /\ btree[n].readers = {}
                        /\ ~btree[n].write /\ ~btree[n].write_in_flight
    /\ btree' = [n \in Nodes |-> NoNode]
    /\ btree_cache_used' = btree_cache_used - Cardinality({n \in Nodes : btree[n].data})
    /\ btree_cache' = <<>>
    /\ btree_cache_freeable' = <<>>
    /\ btree_cache_freed' = <<>>
    /\ th' = [t \in Threads |-> [IdleThread EXCEPT !.pc = "exited"]]
    /\ UNCHANGED <<cannibal, btree_cache_lock, btree_cache_reserve, verify_btree_ondisk>>

\* ------------------------------------------- request.c: reads (184-535)

\* No request: the state of the device between two requests.
\* pc: the function the request is in, "waiting" when its closure waits for
\* its references to be dropped; fn: the function continue_at has set;
\* remaining: the closure's reference count; sector: where s->rbio.bio stands,
\* as an offset into the original bio, which spans 1..size; rbio_error:
\* bi_error of s->rbio.bio; orig_bio: "pending" until bio_endio is called on
\* it, orig_error its bi_error then; missed: the sectors that
\* cached_dev_cache_miss was called for and returned 0; resubmitted: how often
\* cached_dev_read_error has sent the request to the backing device.
\* ended: the calls of bio_endio on the original bio.  For writes: write is
\* s->write, wbio the bio the request came with, branch the branch
\* cached_dev_write took, flags the flags of the write op s->iop, iop the
\* state of that op ("none" while bch_write has not been called), journal
\* the state of the journal flush the request waits for.
NoSearch ==
    [pc |-> "idle", fn |-> "none", remaining |-> 0, bypass |-> FALSE, verify |-> FALSE,
     recoverable |-> FALSE, iop_error |-> "none", cache_miss |-> FALSE,
     read_dirty_data |-> FALSE, size |-> 0, sector |-> 0, rbio_error |-> "none",
     orig_bio |-> "none", orig_error |-> "none", missed |-> {}, resubmitted |-> 0,
     ended |-> 0, write |-> FALSE, wbio |-> [op |-> "read", sector |-> 0, size |-> 0, opf |-> {}],
     branch |-> "none", flags |-> {}, iop |-> "none", journal |-> "none"]

\* closure_get, closure_put on s->cl
closure_get(s) == [s EXCEPT !.remaining = @ + 1]
closure_put(s) == [s EXCEPT !.remaining = @ - 1]

\* continue_at(cl, fn, wq): fn runs when the last reference is dropped
continue_at(s, fn) == closure_put([s EXCEPT !.pc = "waiting", !.fn = fn])

\* A bio on its way to a device, or back from it.
\* retry: it was submitted by cached_dev_read_error.
\* op: its operation ("flush": a write without data); opf: its flags; orig:
\* it is the submitter's bio itself, which ends with the submitter's
\* bi_end_io and not with request_endio.
bio_submit(dev, lo, hi, retry) ==
    [dev |-> dev, lo |-> lo, hi |-> hi, st |-> "inflight", retry |-> retry,
     op |-> "read", opf |-> {}, orig |-> FALSE]

\* __cached_dev_make_request for a read of size > 0 on a device that
\* cached_dev_get got: search_alloc, check_should_bypass (bypass: its
\* result), and cached_dev_read is entered.  verify: dc->verify.
cached_dev_make_request(size, bypass, verify) ==
    /\ search.pc = "idle"
    /\ search' = [NoSearch EXCEPT !.pc = "cached_dev_read", !.remaining = 1,
                                  !.recoverable = TRUE, !.bypass = bypass,
                                  !.verify = verify, !.size = size, !.sector = 1,
                                  !.orig_bio = "pending"]
    /\ bios' = {}

\* The end of an iteration of the loop in cached_dev_read over n sectors:
\* bio_advance, and "out:" after the last one.
read_advance(s, n) ==
    IF s.sector + n - 1 = s.size
    THEN continue_at([s EXCEPT !.sector = @ + n], "cached_dev_read_done_bh")
    ELSE [s EXCEPT !.sector = @ + n]

\* An iteration that finds an extent with a device to read from:
\* bch_read_extent reads n sectors from the cache device and holds a
\* reference on the closure until the read has ended.  dirty: the extent is
\* not a cached one.
cached_dev_read_extent(n, dirty) ==
    /\ search.pc = "cached_dev_read"
    /\ n \in 1..(search.size - search.sector + 1)
    /\ bios' = bios \cup {bio_submit("cache", search.sector, search.sector + n - 1, FALSE)}
    /\ search' = read_advance(
                    closure_get([search EXCEPT !.read_dirty_data = @ \/ dirty]), n)

\* cached_dev_cache_miss past bch_btree_insert_check_key.  On the bypass path
\* the missing sectors are submitted to the backing device.  Otherwise a
\* reference is taken on the closure and __cache_promote is called, whose
\* body is compiled out: nothing is submitted and the reference stays.
cache_miss_submit(s, n) ==
    IF s.bypass
    THEN {bio_submit("backing", s.sector, s.sector + n - 1, FALSE)}
    ELSE {}

\* An iteration that finds a hole or stale data, cached_dev_cache_miss
\* returning 0.
cached_dev_cache_miss(n) ==
    /\ search.pc = "cached_dev_read"
    /\ n \in 1..(search.size - search.sector + 1)
    /\ bios' = bios \cup cache_miss_submit(search, n)
    /\ search' = read_advance(
                    closure_get([search EXCEPT
                        !.cache_miss = TRUE,
                        !.missed = @ \cup (search.sector..(search.sector + n - 1))]), n)

\* cached_dev_cache_miss returns -EINTR from bch_btree_insert_check_key (not
\* on the bypass path).  iter_err: the peek that follows fails, the loop is
\* left and the request ends with "btree IO error"; otherwise "retry:".
cached_dev_cache_miss_eintr(iter_err) ==
    /\ search.pc = "cached_dev_read"
    /\ ~search.bypass
    /\ search' = IF iter_err
                 THEN continue_at([search EXCEPT !.cache_miss = TRUE, !.rbio_error = "EIO"],
                                  "cached_dev_read_done_bh")
                 ELSE [search EXCEPT !.cache_miss = TRUE]
    /\ UNCHANGED bios

\* bch_extent_pick_ptr finds no device to read from (IS_ERR(pick.ca)), or the
\* iterator fails: bcache_io_error on s->rbio.bio, then "out:".
cached_dev_read_io_error ==
    /\ search.pc = "cached_dev_read"
    /\ search' = continue_at([search EXCEPT !.rbio_error = "EIO"], "cached_dev_read_done_bh")
    /\ UNCHANGED bios

\* request_endio: the end of a bio sent to the backing device.
request_endio_keeps_recoverable(s, err) ==
    closure_put(IF err THEN [s EXCEPT !.iop_error = "EIO"] ELSE s)
request_endio(s, err) ==
    closure_put(IF err THEN [s EXCEPT !.iop_error = "EIO", !.recoverable = FALSE] ELSE s)

backing_bio_endio(b, err) ==
    /\ b \in bios /\ b.dev = "backing" /\ b.st = "inflight" /\ ~b.orig
    /\ bios' = (bios \ {b}) \cup {[b EXCEPT !.st = IF err THEN "err" ELSE "ok"]}
    /\ search' = request_endio(search, err)

\* The end of a read from the cache device: an error is left in s->iop.error,
\* the reference on the closure is dropped.
cache_bio_endio(b, err) ==
    /\ b \in bios /\ b.dev = "cache" /\ b.st = "inflight" /\ b.op = "read"
    /\ bios' = (bios \ {b}) \cup {[b EXCEPT !.st = IF err THEN "err" ELSE "ok"]}
    /\ search' = closure_put(IF err THEN [search EXCEPT !.iop_error = "EIO"] ELSE search)

\* The last reference on the closure is gone: the function continue_at set runs.
closure_put_last ==
    /\ search.pc = "waiting"
    /\ search.remaining = 0
    /\ search' = [search EXCEPT !.pc = search.fn, !.fn = "none", !.remaining = 1]
    /\ UNCHANGED bios

cached_dev_read_done_bh ==
    /\ search.pc = "cached_dev_read_done_bh"
    /\ search' = [search EXCEPT !.pc = IF search.iop_error # "none"
                                       THEN "cached_dev_read_error"
                                       ELSE IF search.verify THEN "cached_dev_read_done"
                                       ELSE "cached_dev_bio_complete"]
    /\ UNCHANGED bios

\* do_bio_hook(s, s->orig_bio): s->rbio.bio is a fresh clone of the original bio
do_bio_hook(s) == [s EXCEPT !.sector = 1, !.rbio_error = "none"]

cached_dev_read_error ==
    /\ search.pc = "cached_dev_read_error"
    /\ IF search.recoverable
       THEN /\ bios' = bios \cup {bio_submit("backing", 1, search.size, TRUE)}
            /\ search' = continue_at(
                            closure_get([do_bio_hook(search) EXCEPT
                                            !.iop_error = "none", !.resubmitted = @ + 1]),
                            "cached_dev_bio_complete")
       ELSE /\ bios' = bios
            /\ search' = continue_at(search, "cached_dev_bio_complete")

\* bch_data_verify changes nothing here
cached_dev_read_done ==
    /\ search.pc = "cached_dev_read_done"
    /\ search' = [search EXCEPT !.pc = "cached_dev_bio_complete"]
    /\ UNCHANGED bios

\* cached_dev_bio_complete: search_free, bio_complete ends the original bio
\* with s->iop.error; cached_dev_put.
cached_dev_bio_complete ==
    /\ search.pc = "cached_dev_bio_complete"
    /\ search' = [search EXCEPT !.pc = "idle", !.remaining = 0,
                                !.orig_bio = "done", !.orig_error = search.iop_error,
                                !.ended = @ + 1]
    /\ UNCHANGED bios

\* ------------------------------------ request.c: bypass decision (48-177)

CUTOFF_CACHE_ADD == 10
SectorSize == 512          \* bytes per sector: bio_sectors is bi_size >> 9
UINT_MAX1 == 4096          \* UINT_MAX + 1 of struct io's unsigned sequential, 2^32 scaled to 2^12

RECURSIVE BitAnd(_, _)
\* a & b on naturals
BitAnd(a, b) == IF a = 0 \/ b = 0 THEN 0
                ELSE (a % 2) * (b % 2) + 2 * BitAnd(a \div 2, b \div 2)

Max(a, b) == IF a >= b THEN a ELSE b

\* A bio as __cached_dev_make_request hands it on: op is its bio_op, sector
\* its bi_iter.bi_sector (data_offset added), size its bi_iter.bi_size in
\* bytes, opf the flags of bi_opf among SYNC, PREFLUSH and FUA.
Bio(op, sector, size, opf) == [op |-> op, sector |-> sector, size |-> size, opf |-> opf]

bio_sectors(bio) == bio.size \div SectorSize
bio_end_sector(bio) == bio.sector + bio_sectors(bio)

\* op_is_write: a discard is a write, bio_data_dir sends it to cached_dev_write
op_is_write(op) == op # "read"

\* One struct io of dc->io.  hashed: it is in the bucket of its last sector
\* (FALSE while it is still where bch_cached_dev_init put it, in the bucket
\* that no sector hashes to).
NoIo == [last |-> 0, last_io |-> 0, sequential |-> 0, hashed |-> FALSE]

\* sectors_available(c) * 100 < c->capacity * CUTOFF_CACHE_ADD
cache_nearly_full(d) == d.avail * 100 < d.capacity * CUTOFF_CACHE_ADD

\* mode == CACHE_MODE_NONE || (mode == CACHE_MODE_WRITEAROUND && op_is_write)
mode_skips(d, bio) ==
    \/ d.mode = "none"
    \/ d.mode = "writearound" /\ op_is_write(bio.op)

\* The start or the length of the bio is not on a block boundary.
unaligned_start_only(d, bio) == BitAnd(bio.sector, d.block_size - 1) # 0
unaligned(d, bio) ==
    \/ BitAnd(bio.sector, d.block_size - 1) # 0
    \/ BitAnd(bio_sectors(bio), d.block_size - 1) # 0

\* The tests of check_should_bypass that end in "skip" before anything else
\* is looked at.
bypass_always_any_alignment(d, bio) ==
    \/ d.detaching
    \/ cache_nearly_full(d)
    \/ bio.op = "discard"
    \/ mode_skips(d, bio)
bypass_always(d, bio) ==
    \/ d.detaching
    \/ cache_nearly_full(d)
    \/ bio.op = "discard"
    \/ mode_skips(d, bio)
    \/ unaligned(d, bio)

\* ewma_add(ewma, val, weight)
ewma_add(ewma, val, weight) == (ewma * (2 ^ weight) - ewma + val) \div (2 ^ weight)

add_sequential(t) ==
    [t EXCEPT !.sequential_io_avg = ewma_add(t.sequential_io_avg, t.sequential_io, 3),
              !.sequential_io = 0]

\* hlist_for_each_entry over the bucket of the sector: the position in
\* dc->io_lru of the struct io that is found, 0 if none is.  Every touch of
\* a struct io puts it at the head of its bucket and at the tail of io_lru,
\* so the first match in the bucket is the last match in io_lru.
io_found(d, now, sector) ==
    LET hits == {j \in 1..Len(d.io_lru) :
                    LET i == d.io[d.io_lru[j]]
                    IN  i.hashed /\ i.last = sector /\ now < i.last_io}
    IN  IF hits = {} THEN 0 ELSE CHOOSE j \in hits : \A h \in hits : h <= j

\* list_move_tail(&i->lru, &dc->io_lru)
io_move_tail(lru, i) ==
    SelectSeq(lru, LAMBDA x : x # i) \o <<i>>

\* i->sequential after line 146: the run grows by the bio unless the
\* unsigned sum wraps.
io_sequential_replace(sequential, size) == size
io_sequential(sequential, size) ==
    IF (sequential + size) % UINT_MAX1 > sequential
    THEN (sequential + size) % UINT_MAX1
    ELSE sequential

\* Lines 133-156: the struct io of the run the bio continues, or the least
\* recently used one, takes the bio.  The device and the task afterwards.
io_track(d, t, now, bio) ==
    LET j == io_found(d, now, bio.sector)
        i == IF j # 0 THEN d.io_lru[j] ELSE d.io_lru[1]
        t1 == IF j # 0 THEN t ELSE add_sequential(t)
        seq0 == IF j # 0 THEN d.io[i].sequential ELSE 0
        seq1 == io_sequential(seq0, bio.size)
    IN  [dc |-> [d EXCEPT !.io[i] = [last |-> bio_end_sector(bio),
                                      last_io |-> now + IoWindow,
                                      sequential |-> seq1,
                                      hashed |-> TRUE],
                          !.io_lru = io_move_tail(d.io_lru, i)],
         task |-> [t1 EXCEPT !.sequential_io = seq1]]

\* if (!congested && mode == CACHE_MODE_WRITEBACK && op_is_write && REQ_SYNC)
sync_writeback_rescale_reads(d, bio, congested) ==
    /\ congested = 0
    /\ d.mode = "writeback"
    /\ ~op_is_write(bio.op)
    /\ "SYNC" \in bio.opf
sync_writeback_rescale(d, bio, congested) ==
    /\ congested = 0
    /\ d.mode = "writeback"
    /\ op_is_write(bio.op)
    /\ "SYNC" \in bio.opf

\* Lines 158-170 on the task that io_track left: the reason to skip, "none"
\* if there is none.
bypass_sectors(d, t, congested) ==
    LET sectors == Max(t.sequential_io, t.sequential_io_avg) \div SectorSize
    IN  IF d.sequential_cutoff # 0 /\ sectors >= d.sequential_cutoff \div SectorSize
        THEN "sequential"
        ELSE IF congested # 0 /\ sectors >= congested
        THEN "congested"
        ELSE "none"

\* bch_mark_sectors_bypassed at "skip:"
mark_sectors_bypassed_none(d, bio) == d
bch_mark_sectors_bypassed(d, bio) ==
    [d EXCEPT !.sectors_bypassed = @ + bio_sectors(bio)]

\* check_should_bypass(dc, bio, rw).  congested: what bch_get_congested
\* returned; rnd: get_random_int() & 3.  ret: the value returned; why: the
\* test that sent it to "skip"; dc, task: the device and the task afterwards.
check_should_bypass(d, t, now, bio, congested, rnd) ==
    IF bypass_always(d, bio)
    THEN [ret |-> TRUE, why |-> "always", dc |-> bch_mark_sectors_bypassed(d, bio), task |-> t]
    ELSE IF d.bypass_torture_test
    THEN IF rnd = 3
         THEN [ret |-> TRUE, why |-> "torture", dc |-> bch_mark_sectors_bypassed(d, bio),
               task |-> t]
         ELSE [ret |-> FALSE, why |-> "none", dc |-> d, task |-> t]
    ELSE IF congested = 0 /\ d.sequential_cutoff = 0
    THEN [ret |-> FALSE, why |-> "none", dc |-> d, task |-> t]
    ELSE IF sync_writeback_rescale(d, bio, congested)
    THEN [ret |-> FALSE, why |-> "none", dc |-> d, task |-> t]
    ELSE LET tr == io_track(d, t, now, bio)
             why == bypass_sectors(tr.dc, tr.task, congested)
         IN  IF why # "none"
             THEN [ret |-> TRUE, why |-> why, dc |-> bch_mark_sectors_bypassed(tr.dc, bio),
                   task |-> tr.task]
             ELSE [ret |-> FALSE, why |-> "none", dc |-> tr.dc, task |-> tr.task]


\* ---- the environment of the bypass decision

Modes == {"writethrough", "writeback", "writearound", "none"}
OpFlags == {"SYNC", "PREFLUSH", "FUA"}

\* A cached device that is not attached to a cache set (cached_dev_get
\* fails); what a specification without a cached device starts with.
\* count is dc->count where the references are followed, detach the number
\* of times the detach work has been scheduled.
NoDev ==
    [attached |-> FALSE, detaching |-> FALSE, mode |-> "none", sequential_cutoff |-> 0,
     bypass_torture_test |-> FALSE, block_size |-> 1, avail |-> 0, capacity |-> 0,
     discard |-> FALSE, writeback_keys |-> {}, sectors_bypassed |-> 0,
     writeback_lock |-> 0, has_dirty |-> FALSE,
     io |-> <<>>, io_lru |-> <<>>,
     count |-> 0, detach |-> 0]

NoTask == [sequential_io |-> 0, sequential_io_avg |-> 0]

\* No run: the submitter has sent nothing yet.  start: the first sector of
\* the run; at: the time of its last bio; bios: for each bio of the run the
\* bio, what bch_get_congested returned, what check_should_bypass returned
\* and the task's average the decision was made with.
NoStream == [start |-> 0, at |-> 0, bios |-> <<>>]

\* n: the calls so far
NoLast == [bio |-> Bio("read", 0, 0, {}), congested |-> 0, ret |-> FALSE, why |-> "none",
           n |-> 0]

NoDevice == dc = NoDev /\ task = NoTask /\ jiffies = 0 /\ stream = NoStream /\ last = NoLast

RECURSIVE SumSizes(_)
SumSizes(bs) == IF bs = <<>> THEN 0 ELSE bs[1].bio.size + SumSizes(Tail(bs))

\* The sector the submitter's run has reached.
stream_end(st) == st.start + SumSizes(st.bios) \div SectorSize

\* The run after a bio: one that starts where the run ends, within the
\* window, continues it; any other starts a new run.
stream_add(st, now, bio, congested, ret, avg) ==
    LET e == [bio |-> bio, congested |-> congested, ret |-> ret, avg |-> avg]
    IN  IF st.bios # <<>> /\ bio.sector = stream_end(st) /\ now < st.at + IoWindow
        THEN [st EXCEPT !.at = now, !.bios = Append(@, e)]
        ELSE [start |-> bio.sector, at |-> now, bios |-> <<e>>]

\* get_random_int() & 3 is drawn when the torture test is on.
Rnd(d) == IF d.bypass_torture_test THEN 0..3 ELSE {0}

\* A bio arrives at check_should_bypass.  avail: sectors_available(c) now.
should_bypass(bio, avail, congested, rnd) ==
    LET r == check_should_bypass([dc EXCEPT !.avail = avail], task, jiffies, bio,
                                 congested, rnd)
    IN  /\ dc.attached
        /\ last.n < MaxCalls
        /\ r.dc.sectors_bypassed <= MaxBypassed
        /\ dc' = r.dc
        /\ task' = r.task
        /\ last' = [bio |-> bio, congested |-> congested, ret |-> r.ret, why |-> r.why,
                    n |-> last.n + 1]
        /\ UNCHANGED <<jiffies, stream>>

\* The submitter sends the next bio of a stream of aligned bios, or the
\* first one of a new stream, while the cache set has room.
stream_bio(bio, congested) ==
    LET r == check_should_bypass(dc, task, jiffies, bio, congested, 0)
        st == stream_add(stream, jiffies, bio, congested, r.ret, r.task.sequential_io_avg)
    IN  /\ dc.attached
        /\ last.n < MaxStream
        /\ r.dc.sectors_bypassed <= MaxBypassed
        /\ dc' = r.dc
        /\ task' = r.task
        /\ last' = [bio |-> bio, congested |-> congested, ret |-> r.ret, why |-> r.why,
                    n |-> last.n + 1]
        /\ stream' = st
        /\ UNCHANGED jiffies

\* Time passes.
tick ==
    /\ jiffies < MaxJiffies
    /\ jiffies' = jiffies + 1
    /\ UNCHANGED <<dc, task, stream, last>>


\* ------------------------------------------- request.c: writes (539-690)

\* A bio the write path sends to a device: the sectors lo..hi (none when
\* hi = lo - 1), with the operation and the flags of the bio it was made from.
bio_submit_write(dev, bio, opf, orig) ==
    [dev |-> dev, lo |-> bio.sector, hi |-> bio_end_sector(bio) - 1, st |-> "inflight",
     retry |-> FALSE, op |-> bio.op, opf |-> opf, orig |-> orig]

\* bch_keybuf_check_overlapping(&dc->writeback_keys, start, end): a key of the
\* writeback queue lies in the sectors of the bio.
bch_keybuf_check_overlapping(keys, bio) ==
    \E x \in keys : bio.sector <= x /\ x < bio_end_sector(bio)

\* should_writeback(dc, bio, mode, would_skip).  want: what it makes of the
\* state of the cache set and of the bio.
should_writeback(d, bio, would_skip, want) ==
    d.mode = "writeback" /\ ~would_skip /\ want

\* The locals bypass and writeback of cached_dev_write at line 588, as the
\* branch that is taken.  bypass: s->bypass.
branch_ignores_overlap(d, bio, bypass, want) ==
    LET b2 == bypass \/ bio.op = "discard"
        sw == should_writeback(d, bio, b2, want)
    IN  IF b2 /\ ~sw THEN "bypass" ELSE IF sw THEN "writeback" ELSE "writethrough"
cached_dev_write_branch(d, bio, bypass, want) ==
    LET ov == bch_keybuf_check_overlapping(d.writeback_keys, bio)
        b1 == IF ov THEN FALSE ELSE bypass
        w1 == ov
        b2 == IF bio.op = "discard" THEN TRUE ELSE b1
        sw == should_writeback(d, bio, b2, want)
        b3 == IF sw THEN FALSE ELSE b2
        w3 == w1 \/ sw
    IN  IF b3 THEN "bypass" ELSE IF w3 THEN "writeback" ELSE "writethrough"

\* The flags cached_dev_write gives the write op.
flags_flush_on_preflush_only(bio, branch) ==
    {"DISCARD_ON_ERROR"}
    \cup (IF branch = "writethrough" THEN {"CACHED", "ALLOC_NOWAIT"} ELSE {})
    \cup (IF "PREFLUSH" \in bio.opf THEN {"FLUSH"} ELSE {})
    \cup (IF branch = "bypass" THEN {"DISCARD"} ELSE {})
cached_dev_write_flags(bio, branch) ==
    {"DISCARD_ON_ERROR"}
    \cup (IF branch = "writethrough" THEN {"CACHED", "ALLOC_NOWAIT"} ELSE {})
    \cup (IF bio.opf \cap {"PREFLUSH", "FUA"} # {} THEN {"FLUSH"} ELSE {})
    \cup (IF branch = "bypass" THEN {"DISCARD"} ELSE {})

\* WRITE_FLUSH
WRITE_FLUSH == {"SYNC", "PREFLUSH"}

\* The bios cached_dev_write submits to the backing device: the original bio
\* on the bypass branch (a discard only if the device supports discards), a
\* flush without data on the writeback branch if the bio has REQ_PREFLUSH, a
\* clone of the bio on the writethrough branch.
bios_with_writeback_data(d, bio, branch) ==
    IF branch = "bypass"
    THEN IF bio.op # "discard" \/ d.discard
         THEN {bio_submit_write("backing", bio, bio.opf, TRUE)}
         ELSE {}
    ELSE {bio_submit_write("backing", bio, bio.opf, FALSE)}
bios_discard_always(d, bio, branch) ==
    IF branch = "bypass"
    THEN {bio_submit_write("backing", bio, bio.opf, TRUE)}
    ELSE IF branch = "writeback"
    THEN IF "PREFLUSH" \in bio.opf
         THEN {bio_submit_write("backing", [bio EXCEPT !.op = "write", !.size = 0],
                                WRITE_FLUSH, FALSE)}
         ELSE {}
    ELSE {bio_submit_write("backing", bio, bio.opf, FALSE)}
cached_dev_write_bios(d, bio, branch) ==
    IF branch = "bypass"
    THEN IF bio.op # "discard" \/ d.discard
         THEN {bio_submit_write("backing", bio, bio.opf, TRUE)}
         ELSE {}
    ELSE IF branch = "writeback"
    THEN IF "PREFLUSH" \in bio.opf
         THEN {bio_submit_write("backing", [bio EXCEPT !.op = "write", !.size = 0],
                                WRITE_FLUSH, FALSE)}
         ELSE {}
    ELSE {bio_submit_write("backing", bio, bio.opf, FALSE)}

\* closure_bio_submit on each of n bios and closure_call of bch_write: each
\* takes a reference on s->cl.
refs_forget_bios(s, n) == [s EXCEPT !.remaining = @ + 1]
closure_refs(s, n) == [s EXCEPT !.remaining = @ + n + 1]

\* __cached_dev_make_request for a write or a discard of size > 0 on a device
\* that cached_dev_get got: search_alloc, check_should_bypass and
\* cached_dev_write up to its continue_at.  The write op s->iop is running
\* when it returns.
cached_dev_write_request(bio, avail, congested, rnd, want) ==
    LET r == check_should_bypass([dc EXCEPT !.avail = avail], task, jiffies, bio,
                                 congested, rnd)
        branch == cached_dev_write_branch(r.dc, bio, r.ret, want)
        subs == cached_dev_write_bios(r.dc, bio, branch)
    IN  /\ search.pc = "idle"
        /\ dc.attached
        /\ op_is_write(bio.op) /\ bio.size > 0
        /\ last.n < MaxRequests
        /\ r.dc.sectors_bypassed <= MaxBypassed
        /\ search' = continue_at(
                        closure_refs([NoSearch EXCEPT
                                         !.remaining = 1, !.recoverable = TRUE,
                                         !.write = TRUE, !.wbio = bio,
                                         !.orig_bio = "pending",
                                         !.bypass = r.ret, !.branch = branch,
                                         !.flags = cached_dev_write_flags(bio, branch),
                                         !.iop = "inflight"],
                                     Cardinality(subs)),
                        "cached_dev_write_complete")
        /\ bios' = subs
        /\ dc' = [r.dc EXCEPT !.writeback_lock = @ + 1,
                              !.has_dirty = @ \/ branch = "writeback"]
        /\ task' = r.task
        /\ last' = [bio |-> bio, congested |-> congested, ret |-> r.ret, why |-> r.why,
                    n |-> last.n + 1]
        /\ UNCHANGED <<jiffies, stream>>

\* bch_journal_flush_async(&c->journal, &s->cl).  unflushed: the journal has
\* entries that are not on the cache device yet; they are written, and the
\* closure waits for the write.
bch_journal_flush_async(unflushed) ==
    IF unflushed
    THEN {[dev |-> "cache", lo |-> 0, hi |-> 0, st |-> "inflight", retry |-> FALSE,
           op |-> "journal", opf |-> {}, orig |-> FALSE]}
    ELSE {}

\* closure_bio_submit(clone, &s->cl) at line 672: the clone of a bio without
\* data goes to the backing device.
flush_bios_none(bio) == {}
flush_bios(bio) == {bio_submit_write("backing", bio, bio.opf, FALSE)}

\* __cached_dev_make_request for a write without data on a device that
\* cached_dev_get got (lines 663-674).
cached_dev_flush_request(bio, unflushed) ==
    LET jw == IF bio.opf \cap {"PREFLUSH", "FUA"} # {}
              THEN bch_journal_flush_async(unflushed)
              ELSE {}
    IN  /\ search.pc = "idle"
        /\ dc.attached
        /\ bio.op = "write" /\ bio.size = 0
        /\ last.n < MaxRequests
        /\ search' = continue_at(
                        [NoSearch EXCEPT !.remaining = 1 + Cardinality(jw) + 1,
                                         !.recoverable = TRUE,
                                         !.write = TRUE, !.wbio = bio,
                                         !.orig_bio = "pending",
                                         !.journal = IF jw # {} THEN "flushing" ELSE "none"],
                        "cached_dev_bio_complete")
        /\ bios' = jw \cup flush_bios(bio)
        /\ last' = [last EXCEPT !.n = @ + 1]
        /\ UNCHANGED <<dc, task, jiffies, stream>>

\* __cached_dev_make_request on a device that cached_dev_get did not get
\* (lines 683-689): a discard the backing device does not support is ended
\* at once, any other bio goes to the backing device as it is.
cached_dev_detached_request(bio) ==
    /\ search.pc = "idle"
    /\ ~dc.attached
    /\ op_is_write(bio.op)
    /\ last.n < MaxRequests
    /\ IF bio.op = "discard" /\ ~dc.discard
       THEN /\ search' = [NoSearch EXCEPT !.write = TRUE, !.wbio = bio,
                                          !.orig_bio = "done", !.ended = 1]
            /\ bios' = {}
       ELSE /\ search' = [NoSearch EXCEPT !.write = TRUE, !.wbio = bio,
                                          !.orig_bio = "pending"]
            /\ bios' = {bio_submit_write("backing", bio, bio.opf, TRUE)}
    /\ last' = [last EXCEPT !.n = @ + 1]
    /\ UNCHANGED <<dc, task, jiffies, stream>>

\* The backing device ends the submitter's own bio: its bi_end_io is the
\* submitter's, the original bio is complete.
orig_bio_endio(b, err) ==
    /\ b \in bios /\ b.orig /\ b.st = "inflight"
    /\ bios' = (bios \ {b}) \cup {[b EXCEPT !.st = IF err THEN "err" ELSE "ok"]}
    /\ search' = [search EXCEPT !.orig_bio = "done",
                                !.orig_error = IF err THEN "EIO" ELSE "none",
                                !.ended = @ + 1]
    /\ UNCHANGED devvars

\* The journal write has ended: the closure's reference is dropped.
journal_write_endio(b) ==
    /\ b \in bios /\ b.op = "journal" /\ b.st = "inflight"
    /\ bios' = (bios \ {b}) \cup {[b EXCEPT !.st = "ok"]}
    /\ search' = closure_put([search EXCEPT !.journal = "done"])
    /\ UNCHANGED devvars

\* The write op s->iop has run to its end (bch_write and what it continues
\* with): its error is in s->iop.error, the reference closure_call took on
\* s->cl is dropped.
bch_write_done(err) ==
    /\ search.iop = "inflight"
    /\ search' = closure_put([search EXCEPT !.iop = "done",
                                            !.iop_error = IF err THEN "EIO" ELSE @])
    /\ UNCHANGED <<bios, devvars>>

\* cached_dev_write_complete: up_read_non_owner, then cached_dev_bio_complete.
cached_dev_write_complete ==
    /\ search.pc = "cached_dev_write_complete"
    /\ search' = [search EXCEPT !.pc = "idle", !.remaining = 0,
                                !.orig_bio = "done", !.orig_error = search.iop_error,
                                !.ended = @ + 1]
    /\ dc' = [dc EXCEPT !.writeback_lock = @ - 1]
    /\ UNCHANGED <<bios, task, jiffies, stream, last>>


\* ------------------------------------------ request.c: congestion (53-79)

CONGESTED_MAX == 4      \* scaled down; the sum at line 70 keeps its shape
RandBits == 3           \* bits of the random word of get_random_int
MaxFract == 5           \* largest result of fract_exp_two

\* struct cache_set, as the control surface and the congestion code use it.
\* congested is the atomic counter, roots the btree roots (level, or "none"
\* where c->btree_roots[i].b is NULL), done the commands executed on the set,
\* sets the cache sets on bch_fs_list, extent what the extents tree has for
\* the range of a request, backing the data of that range on the backing device,
\* volume a blockdev volume of the set, nochanges c->opts.nochanges, verify_lock
\* the holder of c->verify_lock.
NoFs == [congested_read_threshold_us |-> 0, congested_write_threshold_us |-> 0,
         congested |-> 0, running |-> FALSE, roots |-> <<>>,
         done |-> {}, sets |-> {}, extent |-> [present |-> FALSE, data |-> 0, dirty |-> FALSE],
         backing |-> 0,
         volume |-> [i_size |-> 0, capacity |-> 0, inode |-> 0, truncated |-> -1],
         nochanges |-> FALSE, verify_lock |-> 0]

\* No call of the control surface yet.
NoOut == [fn |-> "none", arg |-> <<>>, ret |-> 0]

NoControl == cset = NoFs /\ out = NoOut

\* bitmap_weight(&rand, BITS_PER_LONG): the number of bits set in rand.
RECURSIVE bitmap_weight(_)
bitmap_weight(w) == IF w = 0 THEN 0 ELSE (w % 2) + bitmap_weight(w \div 2)

\* The values fract_exp_two(i, 6) can have for i > 0: the function is
\* defined in util.h; nothing is assumed of it beyond its unsigned type.
fract_exp_two(i) == 0..MaxFract

\* Lines 67-68: the sum of the elapsed time and the counter is not negative,
\* the set is not congested.
sum_any_sign(i) == FALSE
not_congested(i) == i >= 0

\* bch_get_congested(c).  elapsed: (local_clock_us() - c->congested_last_us)
\* / 1024 as the int i receives it; f: the result of fract_exp_two, used if
\* i > 0 at line 72; rand: get_random_int().
bch_get_congested(c, elapsed, f, rand) ==
    IF c.congested_read_threshold_us = 0 /\ c.congested_write_threshold_us = 0
    THEN 0
    ELSE IF elapsed < 0
    THEN 0
    ELSE IF not_congested(elapsed + c.congested)
    THEN 0
    ELSE LET i1 == elapsed + c.congested + CONGESTED_MAX
             i2 == IF i1 > 0 THEN f ELSE i1
             i3 == i2 - bitmap_weight(rand)
         IN  IF i3 > 0 THEN i3 ELSE 1

\* A call of bch_get_congested.
get_congested(elapsed, rand) ==
    \E f \in IF elapsed + cset.congested + CONGESTED_MAX > 0
              THEN fract_exp_two(elapsed + cset.congested + CONGESTED_MAX) ELSE {0} :
       /\ out' = [fn |-> "bch_get_congested",
                  arg |-> [read_us |-> cset.congested_read_threshold_us,
                           write_us |-> cset.congested_write_threshold_us,
                           elapsed |-> elapsed, congested |-> cset.congested,
                           f |-> f, rand |-> rand],
                  ret |-> bch_get_congested(cset, elapsed, f, rand)]
       /\ UNCHANGED cset

\* The I/O path found a device slow by ms milliseconds: the counter goes
\* down, not below -CONGESTED_MAX.
bch_congested(ms) ==
    /\ cset.congested - ms >= -CONGESTED_MAX
    /\ cset' = [cset EXCEPT !.congested = @ - ms]
    /\ UNCHANGED out

\* ------------------------------- bch_recalc_btree_reserve (btree_cache.c 21-34)

BTREE_ID_NR == 3        \* btree ids, c->btree_roots[0..BTREE_ID_NR-1]

\* c->btree_roots[i].b is NULL: no level
NoRoot == -1

\* The roots of a cache set: for each btree id the level of its root, or NoRoot.
Roots == [1..BTREE_ID_NR -> {NoRoot} \cup Levels]

\* Lines 25-26: btree_roots[0].b is NULL.
no_root_reserve_none(roots) == 0
no_root_reserve(roots) == IF roots[1] = NoRoot THEN 8 ELSE 0

\* Lines 29-31 for one root: min_t(unsigned, 1, level) * 8.
root_reserve(r) == IF r = NoRoot THEN 0 ELSE (IF r < 1 THEN r ELSE 1) * 8

RECURSIVE roots_reserve(_, _)
roots_reserve(roots, i) ==
    IF i > Len(roots) THEN 0 ELSE root_reserve(roots[i]) + roots_reserve(roots, i + 1)

\* The value bch_recalc_btree_reserve stores in c->btree_cache_reserve.
recalc_btree_reserve(roots) == 16 + no_root_reserve(roots) + roots_reserve(roots, 1)

\* bch_recalc_btree_reserve(c)
bch_recalc_btree_reserve ==
    /\ btree_cache_reserve' = recalc_btree_reserve(cset.roots)
    /\ out' = [fn |-> "bch_recalc_btree_reserve", arg |-> cset.roots,
               ret |-> recalc_btree_reserve(cset.roots)]
    /\ UNCHANGED <<cset, cannibal, btree_cache_lock, btree_cache_used, lists, btree,
                   verify_btree_ondisk, th>>

\* The btree code sets the root of btree id i: a node of the given level.
bch_btree_set_root(i, level) ==
    /\ cset.roots[i] # level
    /\ cset' = [cset EXCEPT !.roots[i] = level]
    /\ UNCHANGED <<out, cannibal, cachevars, th>>

\* ----------------------------------------------- sysfs.c: stores (210-852)

\* Results of a store: the size written on success, or a negative errno.
EPERM == 1
EINVAL == 22

MaxSize == 2            \* sizes written to an attribute: 1..MaxSize bytes
MaxSets == 2            \* cache sets on bch_fs_list

\* The attributes of a cache set that run a command when written.
CommandAttrs == {"journal_flush", "blockdev_volume_create", "trigger_btree_coalesce",
                 "trigger_gc", "prune_cache", "add_device"}

\* The attributes __bch_fs_store handles before it looks at the state of the set.
EarlyAttrs == {"stop", "clear_stats"}

\* Errors of the calls a store makes: 0, or a negative errno.
CallRets == {0, -ENOMEM}

\* bch_fs_running(c)
bch_fs_running(c) == c.running

\* STORE(__bch_fs), lines 728-832: the value returned and the calls made on
\* the set.  ok says whether buf parses (strtoi_h_or_return and
\* strtoul_or_return return -EINVAL otherwise), r is what
\* bch_blockdev_volume_create returns.
\* Lines 798-799.
eperm(c) == ~bch_fs_running(c)

__bch_fs_store(c, attr, ok, size, r) ==
    IF attr = "stop" THEN [ret |-> size, did |-> {"bch_fs_stop_async"}]
    ELSE IF attr = "clear_stats" THEN [ret |-> size, did |-> {"bch_cache_accounting_clear"}]
    ELSE IF eperm(c) THEN [ret |-> -EPERM, did |-> {}]
    ELSE IF attr = "journal_flush"
         THEN [ret |-> size, did |-> {"bch_journal_meta_async"}]
    ELSE IF attr = "blockdev_volume_create"
         THEN IF ~ok THEN [ret |-> -EINVAL, did |-> {}]
              ELSE [ret |-> IF r # 0 THEN r ELSE size,
                    did |-> {"bch_blockdev_volume_create"}]
    ELSE IF attr = "trigger_btree_coalesce" THEN [ret |-> size, did |-> {"bch_coalesce"}]
    ELSE IF attr = "trigger_gc" THEN [ret |-> size, did |-> {"bch_gc"}]
    ELSE IF attr = "prune_cache"
         THEN IF ~ok THEN [ret |-> -EINVAL, did |-> {}]
              ELSE [ret |-> size, did |-> {"scan_objects"}]
    ELSE [ret |-> size, did |-> {}]

\* STORE(bch_fs), lines 834-852: __bch_fs_store under state_lock, then
\* bch_dev_add for add_device; r is what the call made returns.
fs_store(c, attr, ok, size, r) ==
    LET s == __bch_fs_store(c, attr, ok, size, r) IN
    IF attr = "add_device"
    THEN [ret |-> IF r # 0 THEN r ELSE s.ret, did |-> s.did \cup {"bch_dev_add"}]
    ELSE s

\* A write of size bytes to the attribute attr of the cache set.
bch_fs_store(attr, ok, size, r) ==
    LET s == fs_store(cset, attr, ok, size, r) IN
    /\ cset' = [cset EXCEPT !.done = @ \cup s.did,
                            !.running = IF attr = "stop" THEN FALSE ELSE @]
    /\ out' = [fn |-> "bch_fs_store",
               arg |-> [attr |-> attr, ok |-> ok, size |-> size, r |-> r,
                        running |-> cset.running, done |-> cset.done],
               ret |-> s]
    /\ UNCHANGED <<cannibal, cachevars, th>>

\* An unsigned (32 bits) as two halves of 16 bits, most significant first.
\* to_unsigned is the conversion of an int to unsigned.
to_unsigned(x) == <<(x \div 65536) % 65536, x % 65536>>

\* Widths of size_t and ssize_t the build can have.
LongBits == {32, 64}

\* The ssize_t a store returns when it returns the size_t to which the
\* unsigned v was assigned: negative only where size_t has 32 bits and
\* the top bit of v is set.
to_ssize(v, bits) == [neg |-> bits = 32 /\ v[1] >= 32768, low |-> v]

\* The ssize_t of an int that is returned as it is.
int_to_ssize(x) == [neg |-> x < 0, low |-> to_unsigned(x)]

\* Lines 302-306: the loop over bch_fs_list.  res[i] is what
\* bch_cached_dev_attach returns for the i-th set; v starts as size (line 214).
\* The result is <<v, index of the set that accepted, or 0>>.
RECURSIVE attach_loop(_, _, _)
attach_loop(res, i, v) ==
    IF i > Len(res) THEN <<v, 0>>
    ELSE IF res[i] = 0 THEN <<to_unsigned(0), i>>
    ELSE attach_loop(res, i + 1, to_unsigned(res[i]))

\* STORE(__cached_dev) for the attribute attach, lines 298-310 and 317.
cached_dev_store_attach(ok, size, res, bits) ==
    IF ~ok THEN [ret |-> int_to_ssize(-EINVAL), set |-> 0]
    ELSE LET l == attach_loop(res, 1, to_unsigned(size)) IN
         IF l[2] # 0 THEN [ret |-> int_to_ssize(size), set |-> l[2]]
         ELSE [ret |-> to_ssize(l[1], bits), set |-> 0]

\* What bch_cached_dev_attach can return for a set.
AttachRets == {0, -ENOMEM, -EINVAL}

\* A write of `attach <uuid>` to a cached device: ok says whether the uuid
\* parses, res what each set on bch_fs_list answers.
bch_cached_dev_store(ok, size, res, bits) ==
    LET s == cached_dev_store_attach(ok, size, res, bits) IN
    /\ out' = [fn |-> "bch_cached_dev_store",
               arg |-> [attr |-> "attach", ok |-> ok, size |-> size, res |-> res,
                        bits |-> bits],
               ret |-> s]
    /\ UNCHANGED <<cset, cannibal, cachevars, th>>

\* ------------------------------- request.c: the data of a range (278-639)

\* The range a request covers, as the extents tree of the cache set has it:
\* a hole, or one extent with its data, dirty or cached (clean).
NoExtent == [present |-> FALSE, data |-> 0, dirty |-> FALSE]

\* The data the n-th write request on the device carries: its number.
write_data(l) == l.n

\* The extents tree after the write op of the request has run (bch_write
\* with s->iop's flags): the range is discarded with BCH_WRITE_DISCARD, and
\* on an error with BCH_WRITE_DISCARD_ON_ERROR; otherwise the extent is
\* inserted, cached with BCH_WRITE_CACHED, dirty without.
bch_write_extent(s, l, err) ==
    IF "DISCARD" \in s.flags \/ (err /\ "DISCARD_ON_ERROR" \in s.flags)
    THEN NoExtent
    ELSE IF err THEN cset.extent
    ELSE [present |-> TRUE, data |-> write_data(l), dirty |-> "CACHED" \notin s.flags]

\* The write op ends.
data_write_done(err) ==
    /\ bch_write_done(err)
    /\ cset' = [cset EXCEPT !.extent = bch_write_extent(search, last, err)]
    /\ out' = out

\* What the submitter's bio has read when it ends: the backing device's data
\* where cached_dev_read_error has sent the clone of the whole bio there,
\* else the extent's where bch_read_extent has read it, else the backing
\* device's, read on a miss.
read_data(s, bs, c) ==
    IF \E b \in bs : b.retry /\ b.st = "ok" THEN c.backing
    ELSE IF \E b \in bs : b.dev = "cache" /\ b.op = "read" /\ b.st = "ok" THEN c.extent.data
    ELSE c.backing

\* The last write that has ended, as out has it.
last_write == IF out.fn = "read" THEN out.arg ELSE out

\* A write to the backing device ends: the device has the data unless the
\* write failed.  The submitter's own bio (the bypass branch) ends the
\* request for the submitter.
data_backing_endio(b, err) ==
    /\ b.op = "write"
    /\ \/ /\ backing_bio_endio(b, err) /\ UNCHANGED devvars
          /\ out' = out
       \/ /\ orig_bio_endio(b, err)
          /\ out' = [fn |-> "write", arg |-> write_data(last),
                     ret |-> IF err THEN "EIO" ELSE "none"]
    /\ cset' = IF err THEN cset ELSE [cset EXCEPT !.backing = write_data(last)]

\* cached_dev_write_complete ends the submitter's bio with s->iop.error.
data_write_complete ==
    /\ cached_dev_write_complete
    /\ out' = [fn |-> "write", arg |-> write_data(last), ret |-> search.iop_error]
    /\ cset' = cset

\* A read of the range: the loop of cached_dev_read finds what the extents
\* tree has.
data_read_extent ==
    /\ cset.extent.present
    /\ cached_dev_read_extent(search.size, cset.extent.dirty)
    /\ UNCHANGED <<devvars, setvars>>

data_cache_miss ==
    /\ ~cset.extent.present
    /\ cached_dev_cache_miss(search.size)
    /\ UNCHANGED <<devvars, setvars>>

\* cached_dev_bio_complete of a read: the submitter has its data.
data_read_complete ==
    /\ ~search.write
    /\ cached_dev_bio_complete
    /\ out' = [fn |-> "read", arg |-> last_write,
               ret |-> [error |-> search.iop_error,
                        data |-> read_data(search, bios, cset),
                        dirty |-> search.read_dirty_data,
                        resubmitted |-> search.resubmitted]]
    /\ UNCHANGED <<devvars, cset>>

\* The submitter's bio has ended on the bypass branch and nothing of the
\* request is in flight any more, while a reference on s->cl is left: the
\* search stays allocated, the next request gets its own.
search_left ==
    /\ search.pc = "waiting" /\ search.remaining > 0
    /\ search.write /\ search.orig_bio = "done" /\ search.iop = "done"
    /\ \A b \in bios : b.st # "inflight"
    /\ search' = [search EXCEPT !.pc = "idle"]
    /\ UNCHANGED <<bios, devvars, setvars>>

\* ------------------------------ sysfs.c: the size of a blockdev volume (383-418)

MaxVolume == 2          \* sizes of a volume: 0..MaxVolume sectors

\* A blockdev volume: i_size is d->inode.v.i_size (bytes), capacity the
\* capacity of d->disk (sectors), inode the i_size of the inode in the inodes
\* btree, truncated the sectors bch_inode_truncate has cut the data down to
\* (or -1: never truncated).
NoVolume == [i_size |-> 0, capacity |-> 0, inode |-> 0, truncated |-> -1]

\* STORE(__bch_blockdev_volume) for the attribute size: the value returned and
\* the volume afterwards.  ok: buf parses, to v; tr, up, fl: what
\* bch_inode_truncate, bch_btree_update and bch_journal_flush_seq return.
volume_store_size(d, ok, v, size, tr, up, fl) ==
    IF ~ok THEN [ret |-> -EINVAL, d |-> d]
    ELSE IF v < d.i_size /\ tr # 0 THEN [ret |-> tr, d |-> d]
    ELSE LET d1 == IF v < d.i_size THEN [d EXCEPT !.truncated = v \div SectorSize] ELSE d
             d2 == [d1 EXCEPT !.i_size = v]
         IN  IF up # 0 THEN [ret |-> up, d |-> d2]
             ELSE LET d3 == [d2 EXCEPT !.inode = v]
                  IN  IF fl # 0 THEN [ret |-> fl, d |-> d3]
                      ELSE [ret |-> size, d |-> [d3 EXCEPT !.capacity = v \div SectorSize]]

\* A write of size bytes to the attribute size of the volume.
bch_blockdev_volume_store(ok, v, size, tr, up, fl) ==
    LET s == volume_store_size(cset.volume, ok, v, size, tr, up, fl) IN
    /\ cset' = [cset EXCEPT !.volume = s.d]
    /\ out' = [fn |-> "bch_blockdev_volume_store",
               arg |-> [ok |-> ok, v |-> v, size |-> size, tr |-> tr, up |-> up, fl |-> fl,
                        volume |-> cset.volume],
               ret |-> s.ret]
    /\ UNCHANGED <<cannibal, cachevars, th>>

\* ---------------------------------------------------- bch_mca_count (300-313)

\* bch_mca_count: 0 while the cannibalize lock is held, else the pages that
\* may be freed.  The result is left in th[t].nr.
bch_mca_count(t) ==
    /\ th[t].pc = "idle"
    /\ LET n == IF btree_cache_alloc_lock # 0 THEN 0 ELSE mca_can_free * btree_pages
       IN th' = [th EXCEPT ![t] = [IdleThread EXCEPT !.ret = "count", !.nr = n,
                                                     !.holds = th[t].holds]]
    /\ UNCHANGED <<cannibal, cachevars>>

\* ------------------------------- blockdev.h: cached_dev_get, cached_dev_put

\* cached_dev_get: atomic_inc_not_zero(&dc->count)
cached_dev_got(d) == d.count # 0
cached_dev_get(d) == IF d.count # 0 THEN [d EXCEPT !.count = @ + 1] ELSE d

\* cached_dev_put: atomic_dec_and_test(&dc->count), schedule_work(&dc->detach)
\* by the put that reaches zero.  attached is what cached_dev_get returns
\* from then on.
cached_dev_put_no_detach(d) == [d EXCEPT !.count = @ - 1, !.attached = d.count # 1]
cached_dev_put(d) ==
    [d EXCEPT !.count = @ - 1,
              !.detach = IF d.count = 1 THEN @ + 1 ELSE @,
              !.attached = d.count # 1]

\* __cached_dev_make_request up to cached_dev_get (line 661), by the
\* submitter t, on a device whose count is not zero.
make_request_get(t) ==
    /\ th[t].pc = "idle"
    /\ search.pc = "idle"
    /\ last.n < MaxRequests
    /\ cached_dev_got(dc)
    /\ dc' = cached_dev_get(dc)
    /\ th' = [th EXCEPT ![t].pc = "make_request"]
    /\ UNCHANGED <<search, bios, task, jiffies, stream, last>>

\* The rest of __cached_dev_make_request with the reference held: a bio
\* without data (663-674) or cached_dev_write.
make_request_write(t, bio, congested, want, unflushed) ==
    /\ th[t].pc = "make_request"
    /\ \/ cached_dev_write_request(bio, 1, congested, 0, want)
       \/ cached_dev_flush_request(bio, unflushed)
    /\ th' = [th EXCEPT ![t].pc = "request"]

\* cached_dev_bio_complete after search_free, which has ended the original
\* bio: cached_dev_put(dc).
bio_complete_put(t) ==
    /\ th[t].pc = "request"
    /\ search.pc = "idle"
    /\ dc' = cached_dev_put(dc)
    /\ th' = [th EXCEPT ![t].pc = "idle"]
    /\ UNCHANGED <<search, bios, task, jiffies, stream, last>>

\* cached_dev_congested (706-729) once the backing device is found not
\* congested: cached_dev_get, and with the reference the loop over the caches.
cached_dev_congested(t) ==
    /\ th[t].pc = "idle"
    /\ dc' = cached_dev_get(dc)
    /\ th' = [th EXCEPT ![t].pc = IF cached_dev_got(dc) THEN "congested" ELSE "idle"]
    /\ UNCHANGED <<search, bios, task, jiffies, stream, last>>

\* cached_dev_congested: cached_dev_put(dc), return ret
cached_dev_congested_put(t) ==
    /\ th[t].pc = "congested"
    /\ dc' = cached_dev_put(dc)
    /\ th' = [th EXCEPT ![t].pc = "idle"]
    /\ UNCHANGED <<search, bios, task, jiffies, stream, last>>

\* The device is detached from its cache set: the detach path marks it as
\* detaching and drops the reference the attach left in dc->count.
bch_cached_dev_detach ==
    /\ ~dc.detaching
    /\ cached_dev_got(dc)
    /\ dc' = cached_dev_put([dc EXCEPT !.detaching = TRUE])
    /\ UNCHANGED <<th, search, bios, task, jiffies, stream, last>>

\* ------------------------------------- debug.c: __bch_btree_verify (40-147)

\* mutex_unlock(&c->verify_lock); btree_node_io_unlock(b) at lines 145-146.
\* The io lock of a node is its write_in_flight bit.
verify_unlock(c, bt, b) ==
    <<[c EXCEPT !.verify_lock = 0], [bt EXCEPT ![b].write_in_flight = FALSE]>>

\* __bch_btree_verify(c, b) up to btree_node_io_lock: with nochanges it
\* returns at once.
bch_btree_verify(t, b) ==
    /\ th[t].pc = "idle"
    /\ btree[b].data
    /\ IF cset.nochanges
       THEN th' = Return(t, "verify_nochanges")
       ELSE th' = [th EXCEPT ![t] = [@ EXCEPT !.pc = "verify_io_lock", !.ret = "none", !.b = b]]
    /\ UNCHANGED <<cannibal, cachevars, cset>>

\* btree_node_io_lock(b): waits for the bit to be clear and sets it.
verify_io_lock(t) ==
    /\ th[t].pc = "verify_io_lock"
    /\ ~btree[th[t].b].write_in_flight
    /\ btree' = [btree EXCEPT ![th[t].b].write_in_flight = TRUE]
    /\ th' = [th EXCEPT ![t].pc = "verify_lock"]
    /\ UNCHANGED <<cannibal, btree_cache_lock, btree_cache_used, btree_cache_reserve, lists,
                   verify_btree_ondisk, cset>>

\* mutex_lock(&c->verify_lock)
verify_mutex_lock(t) ==
    /\ th[t].pc = "verify_lock"
    /\ cset.verify_lock = 0
    /\ cset' = [cset EXCEPT !.verify_lock = t]
    /\ th' = [th EXCEPT ![t].pc = "verify_pick"]
    /\ UNCHANGED <<cannibal, cachevars>>

\* bch_btree_pick_ptr: a device to read the node from (picked) or none, in
\* which case the function returns at line 67.
verify_pick(t, picked) ==
    /\ th[t].pc = "verify_pick"
    /\ IF picked
       THEN th' = [th EXCEPT ![t].pc = "verify_read"]
       ELSE th' = Return(t, "verify_nodev")
    /\ UNCHANGED <<cannibal, cachevars, cset>>

\* The node has been read back (closure_sync) and compared: a difference ends
\* in panic(), else both locks are released and the function returns.
verify_compare(t, same) ==
    /\ th[t].pc = "verify_read"
    /\ IF same
       THEN LET r == verify_unlock(cset, btree, th[t].b) IN
            /\ cset' = r[1]
            /\ btree' = r[2]
            /\ th' = Return(t, "verify_done")
       ELSE /\ th' = [th EXCEPT ![t].pc = "panic"]
            /\ UNCHANGED <<cset, btree>>
    /\ UNCHANGED <<cannibal, btree_cache_lock, btree_cache_used, btree_cache_reserve, lists,
                   verify_btree_ondisk>>

\* ------------------------------------ debug.c: the btree dump files (191-403)

NDumpKeys == 3      \* keys of the btree that is dumped
MaxRead == 3        \* largest size of one read, in bytes
MaxReads == 4       \* reads of one open file

\* The tree: keys 1..NDumpKeys, two to a leaf node; the last node's key is
\* POS_MAX.
POS_MAX == NDumpKeys + 1
node_of(k) == (k + 1) \div 2
NDumpNodes == node_of(NDumpKeys)
node_max(n) == IF n = NDumpNodes THEN POS_MAX ELSE 2 * n

\* What the formatters leave in i->buf, as bytes: the text of a key followed
\* by '\n' (bch_bkey_val_to_text), the description of a node
\* (bch_print_btree_node), the bfloat line of a key (bch_bkey_print_bfloat).
bch_bkey_val_to_text(k) == <<k, 0>>
bch_print_btree_node(n) == <<100 + n, 100 + n, 0>>
bch_bkey_print_bfloat(k) == <<50 + k, 0>>

\* bch_dump_open: a zeroed dump_iter with from = POS_MIN.  buf holds the
\* i->bytes bytes that are in i->buf, ubuf what this read has copied out.
dump_open == [from |-> 0, buf |-> <<>>, ubuf |-> <<>>, size |-> 0, ret |-> 0]

\* flush_buf (204-221), copy_to_user succeeding.
flush_buf(i) ==
    LET bytes == IF Len(i.buf) < i.size THEN Len(i.buf) ELSE i.size
    IN  [i EXCEPT !.ret = @ + bytes,
                  !.ubuf = @ \o SubSeq(i.buf, 1, bytes),
                  !.size = @ - bytes,
                  !.buf = SubSeq(i.buf, bytes + 1, Len(i.buf))]

\* bch_btree_iter_peek at position from: the first key at or after it, 0 if
\* there is none.
iter_peek(from) ==
    IF from > NDumpKeys THEN 0 ELSE IF from < 1 THEN 1 ELSE from

\* The loop of bch_read_btree (265-285)
RECURSIVE read_btree_loop(_)
read_btree_loop(i) ==
    LET k == iter_peek(i.from) IN
    IF k = 0 THEN i
    ELSE LET j == flush_buf([i EXCEPT !.buf = bch_bkey_val_to_text(k), !.from = k + 1])
         IN  IF j.size = 0 THEN j ELSE read_btree_loop(j)

\* The part every read function starts with: ubuf, size and ret are set for
\* this read and what the last read left in the buffer is flushed.
read_start(i, size) == flush_buf([i EXCEPT !.ubuf = <<>>, !.size = size, !.ret = 0])

\* bch_read_btree (246-289)
bch_read_btree(i, size) ==
    LET j == read_start(i, size) IN
    IF j.size = 0 THEN j ELSE read_btree_loop(j)

\* The loop of bch_read_btree_formats (317-334) standing at node n
RECURSIVE read_formats_loop(_, _)
read_formats_loop(i, n) ==
    IF n > NDumpNodes THEN i
    ELSE LET j == flush_buf([i EXCEPT !.buf = bch_print_btree_node(n)])
             f == IF node_max(n) # POS_MAX THEN node_max(n) + 1 ELSE node_max(n)
             j2 == [j EXCEPT !.from = f]
         IN  IF j2.size = 0 THEN j2 ELSE read_formats_loop(j2, n + 1)

\* bch_read_btree_formats (298-338)
bch_read_btree_formats(i, size) ==
    LET j == read_start(i, size) IN
    IF j.size = 0 \/ j.from = POS_MAX THEN j
    ELSE read_formats_loop(j, node_of(iter_peek(j.from)))

\* The loop of bch_read_bfloat_failed (367-394); prev is prev_node, 0 for NULL.
RECURSIVE read_bfloat_loop(_, _)
read_bfloat_loop(i, prev) ==
    LET k == iter_peek(i.from) IN
    IF k = 0 THEN i
    ELSE LET b == node_of(k)
             i1 == IF b # prev THEN flush_buf([i EXCEPT !.buf = bch_print_btree_node(b)])
                   ELSE i
             i2 == flush_buf([i1 EXCEPT !.buf = bch_bkey_print_bfloat(k)])
             i3 == flush_buf([i2 EXCEPT !.from = k + 1])
         IN  IF i3.size = 0 THEN i3 ELSE read_bfloat_loop(i3, b)

\* bch_read_bfloat_failed (347-403)
bch_read_bfloat_failed(i, size) ==
    LET j == read_start(i, size) IN
    IF j.size = 0 THEN j ELSE read_bfloat_loop(j, 0)

DumpFiles == {"keys", "formats", "bfloat-failed"}

\* The read operation of a dump file
dump_read_fn(file, i, size) ==
    IF file = "keys" THEN bch_read_btree(i, size)
    ELSE IF file = "formats" THEN bch_read_btree_formats(i, size)
    ELSE bch_read_bfloat_failed(i, size)

\* read(fd, buf, size) on the open dump file out.fn.  out.arg is the
\* dump_iter; out.ret has what the reader has got so far (all), the number of
\* reads (n) and the size of the last one.
dump_read(size) ==
    /\ out.fn \in DumpFiles
    /\ out.ret.n < MaxReads
    /\ LET j == dump_read_fn(out.fn, out.arg, size) IN
       out' = [out EXCEPT !.arg = j,
                          !.ret = [all |-> out.ret.all \o j.ubuf, n |-> out.ret.n + 1,
                                   size |-> size]]
    /\ UNCHANGED <<cannibal, cachevars, th, reqvars, devvars, cset>>

\* ------------------------------------------------------------ specifications

\* bch_fs_btree_init: btree_cache_reserve nodes with data on the freeable list,
\* nothing hashed.
InitCache ==
    /\ btree_cache_alloc_lock = 0
    /\ mca_wait = {}
    /\ btree_cache_lock = 0
    /\ btree_cache_reserve = InitReserve
    /\ btree_cache_used = InitReserve
    /\ btree_cache = <<>>
    /\ btree_cache_freeable = [i \in 1..InitReserve |-> InitReserve + 1 - i]
    /\ btree_cache_freed = <<>>
    /\ btree = [n \in 1..NNodes |-> IF n <= InitReserve
                                    THEN [NoNode EXCEPT !.alloc = TRUE, !.data = TRUE]
                                    ELSE NoNode]
    /\ th = [t \in 1..NThreads |-> IdleThread]

\* No request on the cached device
NoRequest == search = NoSearch /\ bios = {} /\ NoDevice /\ NoControl

InitLock == InitCache /\ verify_btree_ondisk = FALSE /\ NoRequest

NextLock ==
    /\ \E t \in Threads :
          \/ \E cl \in BOOLEAN : mca_cannibalize_lock(t, cl)
          \/ mca_cannibalize_lock_wait(t)
          \/ mca_cannibalize_lock_retry(t)
          \/ mca_cannibalize_lock_raced(t)
          \/ mca_cannibalize_unlock(t)
          \/ mca_cannibalize_unlock_clear(t)
          \/ mca_cannibalize_unlock_wake(t)
    /\ UNCHANGED <<reqvars, devvars, setvars>>

\* Threads calling mca_cannibalize_lock and mca_cannibalize_unlock in any order.
SpecLock == InitLock /\ [][NextLock]_vars

\* The same, where a thread that has entered mca_cannibalize_lock or
\* mca_cannibalize_unlock runs it to its end, and a thread that holds the
\* slot calls mca_cannibalize_unlock in the end.
LockRuns(t) ==
    \/ mca_cannibalize_lock_wait(t)
    \/ mca_cannibalize_lock_retry(t)
    \/ mca_cannibalize_lock_raced(t)
    \/ mca_cannibalize_unlock_clear(t)
    \/ mca_cannibalize_unlock_wake(t)
    \/ (btree_cache_alloc_lock = t /\ mca_cannibalize_unlock(t))

SpecLockFair ==
    /\ SpecLock
    /\ \A t \in 1..NThreads : WF_vars(LockRuns(t) /\ UNCHANGED <<reqvars, devvars, setvars>>)

\* ---- bch_btree_node_get against the shrinker

InitGet == InitCache /\ verify_btree_ondisk = FALSE /\ NoRequest

GetStep(t) ==
    \/ bch_btree_node_get_retry(t)
    \/ bch_btree_node_get_lock_fails(t)
    \/ \E fault, relock \in BOOLEAN : bch_btree_node_get_locked(t, fault, relock)
    \/ mca_alloc(t)
    \/ mca_alloc_freeable(t)
    \/ \E ok \in BOOLEAN : mca_alloc_freed(t, ok)
    \/ \E kz, ok \in BOOLEAN : mca_alloc_bucket(t, kz, ok)
    \/ bch_btree_node_fill_copy(t)
    \/ bch_btree_node_fill_insert(t)
    \/ \E err \in BOOLEAN : bch_btree_node_fill_read(t, err)
    \/ bch_btree_node_fill_lost(t)
    \/ btree_node_unlock(t)

ScanStep(t) ==
    \/ bch_mca_scan_trylock_fails(t)
    \/ bch_mca_scan_lock(t)
    \/ bch_mca_scan_locked(t)
    \/ bch_mca_scan_remove(t)
    \/ bch_mca_scan_relock_fails(t)
    \/ bch_mca_scan_relock(t)
    \/ bch_mca_scan_restart(t)

\* The shrinker here asks for one node (btree_pages pages) at a time: such a
\* scan is over after its first eviction (freed >= nr), it never retakes
\* btree_cache_lock.
ScanOneStep(t) ==
    \/ bch_mca_scan_trylock_fails(t)
    \/ bch_mca_scan_lock(t)
    \/ bch_mca_scan_locked(t)
    \/ bch_mca_scan_remove(t)

NextGet ==
    /\ \E t \in Threads :
          \/ \E k \in Keys, l \in Levels, lt \in LockTypes, p \in {"none", "read"} :
                bch_btree_node_get(t, k, l, lt, p)
          \/ GetStep(t)
          \/ \E io \in BOOLEAN : bch_mca_scan(t, btree_pages, io)
          \/ ScanOneStep(t)
    /\ UNCHANGED <<reqvars, devvars, setvars>>

SpecGet == InitGet /\ [][NextGet]_vars

\* ---- concurrent shrinker scans over a cache of clean, unlocked nodes

\* The cache after NScanNodes fills whose callers have unlocked their nodes:
\* every container has data and is hashed under its own pointer, on
\* btree_cache in the order of the fills (list_add puts the newest first).
\* The accessed bits are whatever the users of the nodes left.
InitScan ==
    /\ btree_cache_alloc_lock = 0
    /\ mca_wait = {}
    /\ btree_cache_lock = 0
    /\ btree_cache_reserve = InitReserve
    /\ btree_cache_used = NScanNodes
    /\ btree_cache = [i \in 1..NScanNodes |-> NScanNodes + 1 - i]
    /\ btree_cache_freeable = <<>>
    /\ btree_cache_freed = <<>>
    /\ \E acc \in SUBSET (1..NScanNodes) :
          btree = [n \in 1..NScanNodes |->
                     [NoNode EXCEPT !.alloc = TRUE, !.data = TRUE, !.key = n,
                                    !.hashed = TRUE, !.accessed = n \in acc]]
    /\ verify_btree_ondisk = FALSE
    /\ th = [t \in 1..NThreads |-> IdleThread]
    /\ NoRequest

NextScan ==
    /\ \E t \in Threads :
          \/ \E nr \in 0..MaxScan, io \in BOOLEAN : bch_mca_scan(t, nr, io)
          \/ ScanStep(t)
    /\ UNCHANGED <<reqvars, devvars, setvars>>

SpecScan == InitScan /\ [][NextScan]_vars

\* ---- fills, cannibalization and the shrinker over nodes that are dirtied
\* and written

InitEvict == InitCache /\ verify_btree_ondisk \in BOOLEAN /\ NoRequest

NextEvict ==
    /\ \/ \E t \in Threads :
             \/ mca_cannibalize_lock(t, FALSE)
             \/ mca_cannibalize_unlock(t)
             \/ mca_cannibalize_unlock_clear(t)
             \/ mca_cannibalize_unlock_wake(t)
             \/ \E k \in Keys : bch_btree_node_get(t, k, 0, "intent", "none")
             \/ GetStep(t)
             \/ mca_cannibalize_waited(t)
             \/ mca_cannibalize_again(t)
             \/ mca_alloc_cannibalized(t)
             \/ set_btree_node_dirty(t)
             \/ set_btree_node_accessed(t)
             \/ bch_btree_node_write(t)
             \/ \E io \in BOOLEAN : bch_mca_scan(t, btree_pages, io)
             \/ ScanOneStep(t)
       \/ \E n \in Nodes : btree_node_write_done(n)
       \/ bch_fs_btree_exit
    /\ UNCHANGED <<reqvars, devvars, setvars>>

SpecEvict == InitEvict /\ [][NextEvict]_vars

\* ---- shrinker scans over a cache with nodes on the freeable list

NFreeable == 5          \* longest freeable list
NShrinkHashed == 2      \* hashed nodes

\* A cache with f unlocked nodes on the freeable list (left there by fills
\* that lost their race, and by bch_fs_btree_init) and NShrinkHashed clean,
\* unlocked hashed nodes on btree_cache, whose accessed bits are whatever the
\* scans before left.
InitShrink ==
    /\ btree_cache_alloc_lock = 0
    /\ mca_wait = {}
    /\ btree_cache_lock = 0
    /\ btree_cache_reserve = InitReserve
    /\ btree_cache_freed = <<>>
    /\ \E f \in 0..NFreeable, acc \in SUBSET (1..NShrinkHashed) :
          /\ btree_cache_used = f + NShrinkHashed
          /\ btree_cache_freeable = [i \in 1..f |-> i]
          /\ btree_cache = [i \in 1..NShrinkHashed |-> f + i]
          /\ btree = [n \in 1..(f + NShrinkHashed) |->
                        IF n <= f THEN [NoNode EXCEPT !.alloc = TRUE, !.data = TRUE]
                        ELSE [NoNode EXCEPT !.alloc = TRUE, !.data = TRUE, !.key = n - f,
                                            !.hashed = TRUE, !.accessed = (n - f) \in acc]]
    /\ verify_btree_ondisk = FALSE
    /\ th = [t \in 1..NThreads |-> IdleThread]
    /\ NoRequest

NextShrink ==
    /\ \E t \in Threads :
          \/ \E nr \in 0..MaxScan, io \in BOOLEAN : bch_mca_scan(t, nr, io)
          \/ ScanStep(t)
    /\ UNCHANGED <<reqvars, devvars, setvars>>

SpecShrink == InitShrink /\ [][NextShrink]_vars

\* ---- the reserve of the node cache

\* bch_fs_btree_init has run: no btree has a root yet, the reserve has been
\* computed for that and as many nodes allocated.
InitRecalc ==
    /\ btree_cache_alloc_lock = 0
    /\ mca_wait = {}
    /\ btree_cache_lock = 0
    /\ btree_cache_reserve = recalc_btree_reserve([i \in 1..BTREE_ID_NR |-> NoRoot])
    /\ btree_cache_used = btree_cache_reserve
    /\ btree_cache = <<>>
    /\ btree_cache_freeable = [i \in 1..btree_cache_reserve |-> btree_cache_reserve + 1 - i]
    /\ btree_cache_freed = <<>>
    /\ btree = [n \in 1..btree_cache_reserve |-> [NoNode EXCEPT !.alloc = TRUE, !.data = TRUE]]
    /\ th = [t \in 1..NThreads |-> IdleThread]
    /\ verify_btree_ondisk = FALSE
    /\ search = NoSearch /\ bios = {} /\ NoDevice
    /\ cset = [NoFs EXCEPT !.roots = [i \in 1..BTREE_ID_NR |-> NoRoot]]
    /\ out = NoOut

NextRecalc ==
    /\ \/ bch_recalc_btree_reserve
       \/ \E i \in 1..BTREE_ID_NR, level \in Levels : bch_btree_set_root(i, level)
    /\ UNCHANGED <<reqvars, devvars>>

SpecRecalc == InitRecalc /\ [][NextRecalc]_vars

\* ---- mca_alloc over a full cache

NCannNodes == 2

\* What the btree update and write code has left of a cached node.
NodeKinds == {"clean", "dirty", "write_in_flight", "noevict", "write_error", "write_blocked"}

CannNode(n, kind) ==
    [NoNode EXCEPT !.alloc = TRUE, !.data = TRUE, !.key = n, !.hashed = TRUE,
                   !.dirty = (kind = "dirty"),
                   !.write_in_flight = (kind = "write_in_flight"),
                   !.noevict = (kind = "noevict"),
                   !.write_error = (kind = "write_error"),
                   !.write_blocked = (kind = "write_blocked")]

\* The pointers of the cached nodes, and one that is not cached.
CannKeys == 1..(NCannNodes + 1)

\* The cache after NCannNodes fills, no memory left for another container:
\* NCannNodes containers are hashed under their own pointers and on
\* btree_cache, the newest first; one more container is on the freeable
\* list (with its buffer), on the freed list (without) or can still be
\* allocated.
InitCann ==
    /\ btree_cache_alloc_lock = 0
    /\ mca_wait = {}
    /\ btree_cache_lock = 0
    /\ btree_cache_reserve = InitReserve
    /\ btree_cache = [i \in 1..NCannNodes |-> NCannNodes + 1 - i]
    /\ \E kind \in [1..NCannNodes -> NodeKinds], extra \in {"none", "freeable", "freed"} :
          /\ btree = [n \in 1..(NCannNodes + 1) |->
                        IF n <= NCannNodes THEN CannNode(n, kind[n])
                        ELSE [NoNode EXCEPT !.alloc = (extra # "none"),
                                            !.data = (extra = "freeable")]]
          /\ btree_cache_freeable = IF extra = "freeable" THEN <<NCannNodes + 1>> ELSE <<>>
          /\ btree_cache_freed = IF extra = "freed" THEN <<NCannNodes + 1>> ELSE <<>>
          /\ btree_cache_used = NCannNodes + (IF extra = "freeable" THEN 1 ELSE 0)
    /\ verify_btree_ondisk = FALSE
    /\ th = [t \in 1..NThreads |-> IdleThread]
    /\ NoRequest

NextCann ==
    /\ \/ \E t \in Threads :
             \/ mca_cannibalize_lock(t, FALSE)
             \/ mca_cannibalize_unlock(t)
             \/ mca_cannibalize_unlock_clear(t)
             \/ mca_cannibalize_unlock_wake(t)
             \/ \E k \in CannKeys : bch_btree_node_get(t, k, 0, "intent", "none")
             \/ GetStep(t)
             \/ mca_cannibalize_waited(t)
             \/ mca_cannibalize_again(t)
             \/ mca_alloc_cannibalized(t)
       \/ \E n \in Nodes : btree_node_write_done(n)
    /\ UNCHANGED <<reqvars, devvars, setvars>>

SpecCann == InitCann /\ [][NextCann]_vars

\* ---- reads on a cached device

InitRead == InitCache /\ verify_btree_ondisk = FALSE /\ NoRequest

NextRead ==
    /\ \/ \E size \in 1..NSectors, bypass, verify \in BOOLEAN :
             cached_dev_make_request(size, bypass, verify)
       \/ \E n \in 1..NSectors, dirty \in BOOLEAN : cached_dev_read_extent(n, dirty)
       \/ \E n \in 1..NSectors : cached_dev_cache_miss(n)
       \/ \E iter_err \in BOOLEAN : cached_dev_cache_miss_eintr(iter_err)
       \/ cached_dev_read_io_error
       \/ \E b \in bios, err \in BOOLEAN : backing_bio_endio(b, err)
       \/ \E b \in bios, err \in BOOLEAN : cache_bio_endio(b, err)
       \/ closure_put_last
       \/ cached_dev_read_done_bh
       \/ cached_dev_read_error
       \/ cached_dev_read_done
       \/ cached_dev_bio_complete
    /\ UNCHANGED <<cannibal, cachevars, th, devvars, setvars>>

SpecRead == InitRead /\ [][NextRead]_vars

\* ---- the bypass decision

MaxSector == 1
BlockSizes == {1, 2}
Cutoffs == {0, 2 * SectorSize}

\* The bios that arrive: every op and start, one or two sectors long, with
\* REQ_SYNC or without.
Bios ==
    {Bio(op, sector, n * SectorSize, opf) :
        op \in {"read", "write", "discard"}, sector \in 0..MaxSector, n \in 1..2,
        opf \in SUBSET {"SYNC"}}

\* bch_cached_dev_init leaves the recent-io table with every struct io
\* unused, in the order of the array.
InitIo(d) == [d EXCEPT !.io = [i \in 1..NRecentIo |-> NoIo],
                       !.io_lru = [i \in 1..NRecentIo |-> i]]

\* An attached device in any configuration.
InitDevice ==
    /\ \E mode \in Modes, detaching, torture \in BOOLEAN, cutoff \in Cutoffs,
          bs \in BlockSizes :
          dc = InitIo([NoDev EXCEPT !.attached = TRUE, !.detaching = detaching,
                                    !.mode = mode, !.sequential_cutoff = cutoff,
                                    !.bypass_torture_test = torture, !.block_size = bs,
                                    !.avail = 1, !.capacity = 10])
    /\ task = NoTask /\ jiffies = 0 /\ stream = NoStream /\ last = NoLast
    /\ NoControl

InitBypass == InitCache /\ verify_btree_ondisk = FALSE /\ search = NoSearch /\ bios = {}
              /\ InitDevice

NextBypass ==
    /\ \/ \E bio \in Bios, avail \in 0..1, congested \in 0..MaxCongested, rnd \in Rnd(dc) :
             should_bypass(bio, avail, congested, rnd)
       \/ tick
    /\ UNCHANGED <<cannibal, cachevars, th, reqvars, setvars>>

SpecBypass == InitBypass /\ [][NextBypass]_vars

\* ---- the sequential detector on streams of bios

\* A device that caches: attached and not detaching, in a mode that caches
\* reads and writes, with room in the cache set, a sequential cutoff set and
\* the torture test off.
InitSeq ==
    /\ InitCache /\ verify_btree_ondisk = FALSE /\ search = NoSearch /\ bios = {}
    /\ \E mode \in {"writethrough", "writeback"}, bs \in BlockSizes :
          dc = InitIo([NoDev EXCEPT !.attached = TRUE, !.mode = mode,
                                    !.sequential_cutoff = 2 * SectorSize,
                                    !.block_size = bs, !.avail = 1, !.capacity = 10])
    /\ task = NoTask /\ jiffies = 0 /\ stream = NoStream /\ last = NoLast
    /\ NoControl

\* The bios of the streams: reads and writes that start at the end of the
\* stream or at sector 0.
SeqBios ==
    {Bio(op, sector, n * SectorSize, opf) :
        op \in {"read", "write"}, sector \in {0, stream_end(stream)}, n \in 1..2,
        opf \in SUBSET {"SYNC"}}

NextSeq ==
    /\ \/ \E bio \in SeqBios, congested \in 0..1 : stream_bio(bio, congested)
       \/ tick
    /\ UNCHANGED <<cannibal, cachevars, th, reqvars, setvars>>

SpecSeq == InitSeq /\ [][NextSeq]_vars

\* ---- writes on a cached device

\* The writes that arrive: writes and discards at sector 0 or 1, up to two
\* sectors long or without data, with any of REQ_SYNC, REQ_PREFLUSH, REQ_FUA.
WriteBios ==
    {Bio(op, sector, n * SectorSize, opf) :
        op \in {"write", "discard"}, sector \in 0..MaxSector, n \in 0..2,
        opf \in SUBSET OpFlags}

\* A cached device in any cache mode, attached to a cache set with room or
\* not attached, over a backing device with or without discards, while the
\* writeback queue is empty or holds a key at sector 1.
InitWrite ==
    /\ InitCache /\ verify_btree_ondisk = FALSE /\ search = NoSearch /\ bios = {}
    /\ \E attached, discard \in BOOLEAN, mode \in Modes, bs \in BlockSizes,
          keys \in {{}, {1}} :
          dc = InitIo([NoDev EXCEPT !.attached = attached, !.mode = mode,
                                    !.block_size = bs, !.discard = discard,
                                    !.writeback_keys = keys,
                                    !.avail = 1, !.capacity = 10])
    /\ task = NoTask /\ jiffies = 0 /\ stream = NoStream /\ last = NoLast
    /\ NoControl

NextWrite ==
    /\ \/ \E bio \in WriteBios, congested \in 0..1, want \in BOOLEAN :
             cached_dev_write_request(bio, 1, congested, 0, want)
       \/ \E bio \in WriteBios, unflushed \in BOOLEAN : cached_dev_flush_request(bio, unflushed)
       \/ \E bio \in WriteBios : cached_dev_detached_request(bio)
       \/ \E b \in bios, err \in BOOLEAN :
             backing_bio_endio(b, err) /\ UNCHANGED devvars
       \/ \E b \in bios, err \in BOOLEAN : orig_bio_endio(b, err)
       \/ \E b \in bios : journal_write_endio(b)
       \/ \E err \in BOOLEAN : bch_write_done(err)
       \/ closure_put_last /\ UNCHANGED devvars
       \/ cached_dev_bio_complete /\ UNCHANGED devvars
       \/ cached_dev_write_complete
    /\ UNCHANGED <<cannibal, cachevars, th, setvars>>

SpecWrite == InitWrite /\ [][NextWrite]_vars

\* ---- the congestion threshold

MaxElapsed == 3
Thresholds == {0, 2000}

InitCongested ==
    /\ InitCache /\ verify_btree_ondisk = FALSE /\ search = NoSearch /\ bios = {} /\ NoDevice
    /\ \E r, w \in Thresholds :
          cset = [NoFs EXCEPT !.congested_read_threshold_us = r,
                            !.congested_write_threshold_us = w]
    /\ out = NoOut

NextCongested ==
    /\ \/ \E elapsed \in -1..MaxElapsed, rand \in 0..(2^RandBits - 1) :
             get_congested(elapsed, rand)
       \/ \E ms \in 1..2 : bch_congested(ms)
    /\ UNCHANGED <<cannibal, cachevars, th, reqvars, devvars>>

SpecCongested == InitCongested /\ [][NextCongested]_vars

\* ---- stores to the attributes of a cache set and of a cached device

InitSysfs ==
    /\ InitCache /\ verify_btree_ondisk = FALSE /\ search = NoSearch /\ bios = {} /\ NoDevice
    /\ \E run \in BOOLEAN, sets \in 0..MaxSets :
          cset = [NoFs EXCEPT !.running = run, !.sets = 1..sets]
    /\ out = NoOut

NextSysfs ==
    /\ \/ \E attr \in CommandAttrs \cup EarlyAttrs, ok \in BOOLEAN, size \in 1..MaxSize,
             r \in CallRets : bch_fs_store(attr, ok, size, r)
       \/ \E ok \in BOOLEAN, size \in 1..MaxSize, bits \in LongBits,
             res \in [1..Cardinality(cset.sets) -> AttachRets] :
             bch_cached_dev_store(ok, size, res, bits)
    /\ UNCHANGED <<reqvars, devvars>>

SpecSysfs == InitSysfs /\ [][NextSysfs]_vars

\* ---- a write to a range of a cached device, and reads of the range

\* The writes of SpecData: one block at sector 0.
DataBios == {Bio("write", 0, SectorSize, opf) : opf \in {{}, {"SYNC"}}}

\* An attached device in any cache mode; the range is a hole in the extents
\* tree, the backing device has the data 0 there.
InitData ==
    /\ InitCache /\ verify_btree_ondisk = FALSE /\ search = NoSearch /\ bios = {}
    /\ \E mode \in Modes :
          dc = InitIo([NoDev EXCEPT !.attached = TRUE, !.mode = mode, !.block_size = 1,
                                    !.avail = 1, !.capacity = 10])
    /\ task = NoTask /\ jiffies = 0 /\ stream = NoStream /\ last = NoLast
    /\ NoControl

NextData ==
    /\ \/ \E bio \in DataBios, congested \in 0..1, want \in BOOLEAN :
             cached_dev_write_request(bio, 1, congested, 0, want) /\ UNCHANGED setvars
       \/ \E b \in bios, err \in BOOLEAN : data_backing_endio(b, err)
       \/ \E err \in BOOLEAN : data_write_done(err)
       \/ data_write_complete
       \/ search_left
       \/ \E bypass \in BOOLEAN :
             /\ search.orig_bio = "done"
             /\ cached_dev_make_request(1, bypass, FALSE)
             /\ UNCHANGED <<devvars, setvars>>
       \/ data_read_extent
       \/ data_cache_miss
       \/ \E b \in bios, err \in BOOLEAN :
             /\ b.op = "read"
             /\ backing_bio_endio(b, err) /\ UNCHANGED <<devvars, setvars>>
       \/ \E b \in bios, err \in BOOLEAN :
             cache_bio_endio(b, err) /\ UNCHANGED <<devvars, setvars>>
       \/ closure_put_last /\ UNCHANGED <<devvars, setvars>>
       \/ cached_dev_read_done_bh /\ UNCHANGED <<devvars, setvars>>
       \/ cached_dev_read_error /\ UNCHANGED <<devvars, setvars>>
       \/ data_read_complete
    /\ UNCHANGED <<cannibal, cachevars, th>>

SpecData == InitData /\ [][NextData]_vars

\* ---- mca_reap_notrace on a hashed node, against other users of the node

\* One hashed node with any flags, unlocked or locked by another thread for
\* read or for intent; thread 1 holds btree_cache_lock and calls
\* mca_reap_notrace.
InitReap ==
    /\ btree_cache_alloc_lock = 0
    /\ mca_wait = {}
    /\ btree_cache_lock = 1
    /\ btree_cache_reserve = 0
    /\ btree_cache_used = 1
    /\ btree_cache = <<1>>
    /\ btree_cache_freeable = <<>>
    /\ btree_cache_freed = <<>>
    /\ \E dirty, wif, werr, noevict, blocked \in BOOLEAN, held \in {"none", "read", "intent"} :
          btree = <<[NoNode EXCEPT !.alloc = TRUE, !.data = TRUE, !.key = 1, !.hashed = TRUE,
                                   !.dirty = dirty, !.write_in_flight = wif,
                                   !.write_error = werr, !.noevict = noevict,
                                   !.write_blocked = blocked,
                                   !.readers = IF held = "read" THEN {NThreads} ELSE {},
                                   !.intent = IF held = "intent" THEN NThreads ELSE 0]>>
    /\ th = [t \in 1..NThreads |-> IdleThread]
    /\ verify_btree_ondisk \in BOOLEAN
    /\ search = NoSearch /\ bios = {} /\ NoDevice /\ NoControl

NextReap ==
    /\ \/ \E t \in Threads, b \in Nodes, flush \in BOOLEAN : mca_reap_call(t, b, flush)
       \/ \E t \in Threads : reap_trylock_intent(t)
       \/ \E t \in Threads : reap_trylock_write(t)
       \/ \E t \in Threads : reap_check(t)
       \/ \E t \in Threads : reap_wait(t)
       \/ \E t \in Threads : reap_unlock(t)
       \/ \E t \in Threads : reap_unlock_intent(t)
       \/ \E t \in Threads : reap_caller_unlock(t)
       \/ \E u \in Threads, b \in Nodes : node_user(u, b)
       \/ \E b \in Nodes : reap_write_done(b)
    /\ UNCHANGED <<reqvars, devvars>>

SpecReap == InitReap /\ [][NextReap]_vars

\* ---- stores to the size of a blockdev volume

InitVolume ==
    /\ InitCache /\ verify_btree_ondisk = FALSE /\ search = NoSearch /\ bios = {} /\ NoDevice
    /\ \E n \in 0..MaxVolume :
          cset = [NoFs EXCEPT !.running = TRUE,
                              !.volume = [NoVolume EXCEPT !.i_size = n * SectorSize,
                                                          !.inode = n * SectorSize,
                                                          !.capacity = n]]
    /\ out = NoOut

NextVolume ==
    /\ \E ok \in BOOLEAN, n \in 0..MaxVolume, size \in 1..MaxSize, tr, up, fl \in CallRets :
          bch_blockdev_volume_store(ok, n * SectorSize, size, tr, up, fl)
    /\ UNCHANGED <<reqvars, devvars>>

SpecVolume == InitVolume /\ [][NextVolume]_vars

\* ---- the shrinker against mca_cannibalize_lock

InitCount == InitScan

NextCount ==
    /\ \E t \in Threads :
          \/ \E cl \in BOOLEAN : mca_cannibalize_lock(t, cl)
          \/ mca_cannibalize_lock_wait(t)
          \/ mca_cannibalize_lock_retry(t)
          \/ mca_cannibalize_lock_raced(t)
          \/ mca_cannibalize_unlock(t)
          \/ mca_cannibalize_unlock_clear(t)
          \/ mca_cannibalize_unlock_wake(t)
          \/ bch_mca_count(t)
          \/ \E nr \in 0..MaxScan, io \in BOOLEAN : bch_mca_scan(t, nr, io)
          \/ ScanStep(t)
    /\ UNCHANGED <<reqvars, devvars, setvars>>

SpecCount == InitCount /\ [][NextCount]_vars

\* ---- the references on a cached device

\* An attached device, dc->count at the 1 the attach set, in any cache mode.
InitRef ==
    /\ InitCache /\ verify_btree_ondisk = FALSE /\ search = NoSearch /\ bios = {}
    /\ \E discard \in BOOLEAN, mode \in Modes, keys \in {{}, {1}} :
          dc = InitIo([NoDev EXCEPT !.attached = TRUE, !.mode = mode,
                                    !.discard = discard, !.writeback_keys = keys,
                                    !.avail = 1, !.capacity = 10, !.count = 1])
    /\ task = NoTask /\ jiffies = 0 /\ stream = NoStream /\ last = NoLast
    /\ NoControl

\* The thread that submits the request; the others poll cached_dev_congested.
Submitter == Min(Threads)

NextRef ==
    /\ \/ make_request_get(Submitter)
       \/ \E bio \in WriteBios, congested \in 0..1, want, unflushed \in BOOLEAN :
             make_request_write(Submitter, bio, congested, want, unflushed)
       \/ bio_complete_put(Submitter)
       \/ \E t \in Threads \ {Submitter} : cached_dev_congested(t)
       \/ \E t \in Threads \ {Submitter} : cached_dev_congested_put(t)
       \/ bch_cached_dev_detach
       \/ \E bio \in WriteBios : cached_dev_detached_request(bio) /\ UNCHANGED th
       \/ \E b \in bios, err \in BOOLEAN :
             backing_bio_endio(b, err) /\ UNCHANGED <<devvars, th>>
       \/ \E b \in bios, err \in BOOLEAN : orig_bio_endio(b, err) /\ UNCHANGED th
       \/ \E b \in bios : journal_write_endio(b) /\ UNCHANGED th
       \/ \E err \in BOOLEAN : bch_write_done(err) /\ UNCHANGED th
       \/ closure_put_last /\ UNCHANGED <<devvars, th>>
       \/ cached_dev_bio_complete /\ UNCHANGED <<devvars, th>>
       \/ cached_dev_write_complete /\ UNCHANGED th
    /\ UNCHANGED <<cannibal, cachevars, setvars>>

SpecRef == InitRef /\ [][NextRef]_vars

\* ---- __bch_btree_verify on the nodes of a cache

\* The cache of InitScan, in a cache set with or without nochanges.
InitVerify ==
    /\ btree_cache_alloc_lock = 0
    /\ mca_wait = {}
    /\ btree_cache_lock = 0
    /\ btree_cache_reserve = InitReserve
    /\ btree_cache_used = NScanNodes
    /\ btree_cache = [i \in 1..NScanNodes |-> NScanNodes + 1 - i]
    /\ btree_cache_freeable = <<>>
    /\ btree_cache_freed = <<>>
    /\ btree = [n \in 1..NScanNodes |->
                  [NoNode EXCEPT !.alloc = TRUE, !.data = TRUE, !.key = n, !.hashed = TRUE]]
    /\ verify_btree_ondisk = TRUE
    /\ th = [t \in 1..NThreads |-> IdleThread]
    /\ search = NoSearch /\ bios = {} /\ NoDevice
    /\ \E nc \in BOOLEAN : cset = [NoFs EXCEPT !.nochanges = nc]
    /\ out = NoOut

NextVerify ==
    /\ \E t \in Threads :
          \/ \E b \in Nodes : bch_btree_verify(t, b)
          \/ verify_io_lock(t)
          \/ verify_mutex_lock(t)
          \/ \E picked \in BOOLEAN : verify_pick(t, picked)
          \/ \E same \in BOOLEAN : verify_compare(t, same)
    /\ UNCHANGED <<reqvars, devvars, out>>

SpecVerify == InitVerify /\ [][NextVerify]_vars

\* ---- reads of the btree dump files

\* A dump file of an unchanging tree has just been opened.
InitDump ==
    /\ InitCache /\ verify_btree_ondisk = FALSE /\ search = NoSearch /\ bios = {} /\ NoDevice
    /\ cset = NoFs
    /\ \E f \in DumpFiles :
          out = [fn |-> f, arg |-> dump_open, ret |-> [all |-> <<>>, n |-> 0, size |-> 0]]

NextDump == \E size \in 1..MaxRead : dump_read(size)

SpecDump == InitDump /\ [][NextDump]_vars

\* ------------------------------------------------------------------ claims

\* C1: at most one thread at a time is the holder of the cannibalize slot:
\* a thread to which mca_cannibalize_lock returned 0, and which has not
\* called mca_cannibalize_unlock since, is the task btree_cache_alloc_lock
\* names; the lock call returns 0 only on a step from a slot that was free or
\* already this thread's; and the slot goes back to NULL only in the
\* mca_cannibalize_unlock of the thread it named.
C1_OneHolder ==
    /\ [](\A t \in Threads : th[t].holds => btree_cache_alloc_lock = t)
    /\ [][\A t \in Threads :
             (th'[t].holds /\ ~th[t].holds) =>
                 (btree_cache_alloc_lock \in {0, t} /\ btree_cache_alloc_lock' = t)]_vars
    /\ [][(btree_cache_alloc_lock # 0 /\ btree_cache_alloc_lock' = 0) =>
             (th[btree_cache_alloc_lock].pc = "ul_clear"
              /\ th'[btree_cache_alloc_lock].pc = "ul_wake")]_vars

\* One thread holds the slot, another asked for it with a closure and got -EAGAIN.
C1_Witness ==
    \E t, u \in Threads :
        t # u /\ th[t].holds /\ btree_cache_alloc_lock = t /\ th[u].ret = "EAGAIN"

\* C2: the node cache never shrinks below its reserve: in every state reached
\* through bch_mca_scan invocations, concurrent ones included, from a cache
\* with btree_cache_used >= btree_cache_reserve, that inequality still holds.
C2_NeverBelowReserve == btree_cache_used >= btree_cache_reserve

C6_OneFillWins ==
    /\ [](\A n, m \in Nodes :
            (n # m /\ btree[n].hashed /\ btree[m].hashed) => btree[n].key # btree[m].key)
    /\ [][\A t \in Threads : (th[t].pc = "fill_insert" /\ th'[t].pc = "fill_lost") =>
             /\ btree'[th[t].b].key = 0 /\ ~btree'[th[t].b].hashed
             /\ \E n \in Nodes \ {th[t].b} :
                    btree'[n].hashed /\ btree'[n].key = th[t].k]_vars
    /\ [][\A t \in Threads : (th[t].pc = "fill_lost" /\ th'[t].pc # "fill_lost") =>
             /\ th'[t].pc = "get_find"
             /\ th[t].b \in Range(btree_cache_freeable')
             /\ btree'[th[t].b].intent = 0 /\ ~btree'[th[t].b].write
             /\ btree'[th[t].b].key = 0 /\ ~btree'[th[t].b].hashed]_vars
    /\ [](\A t, u \in Threads :
            (th[t].pc = "holding" /\ th[u].pc = "holding" /\ th[t].k = th[u].k)
                => th[t].b = th[u].b)

\* A fill has lost the race for a key whose winner's caller holds the node.
C6_Witness ==
    \E t, u \in Threads :
        /\ th[t].pc = "fill_lost" /\ btree[th[t].b].key = 0
        /\ th[u].pc = "holding" /\ th[u].k = th[t].k /\ th[u].b # th[t].b

\* C7: a caller that looked a node up and finds, the lock taken, that the
\* node has left the hash table or carries another key, does not return it:
\* the step that takes the lock releases it again and either goes back to
\* the lookup or returns -EINTR; a node a caller holds is hashed under the
\* requested key.
C7_StaleNotReturned ==
    /\ [](\A t \in Threads : th[t].pc = "holding" =>
            (btree[th[t].b].hashed /\ btree[th[t].b].key = th[t].k))
    /\ [][\A t \in Threads :
             (/\ th[t].pc = "get_lock" /\ th'[t].pc # "get_lock"
              /\ (~btree[th[t].b].hashed \/ btree[th[t].b].key # th[t].k)) =>
                 /\ \/ th'[t].pc = "get_find"
                    \/ th'[t].pc = "idle" /\ th'[t].ret = "EINTR"
                 /\ t \notin btree'[th[t].b].readers
                 /\ btree'[th[t].b].intent # t]_vars

\* A caller is about to lock a node that was evicted after the lookup and
\* whose lock is free.
C7_Witness ==
    \E t \in Threads :
        /\ th[t].pc = "get_lock"
        /\ ~btree[th[t].b].hashed /\ btree[th[t].b].key = 0
        /\ btree[th[t].b].intent = 0 /\ ~btree[th[t].b].write

\* C8: a caller of bch_btree_node_get that is at the lock request for a cached
\* child holds no read lock on the parent.
C8_ParentDropped ==
    \A t \in Threads : th[t].pc = "get_lock" => th[t].parent # "read"

\* A caller that came with the parent read locked waits for the intent lock
\* of a child another thread holds intent on.
C8_Witness ==
    \E t \in Threads :
        /\ th[t].pc = "get_lock" /\ th[t].parent = "dropped"
        /\ th[t].lock_type = "intent"
        /\ btree[th[t].b].intent \notin {0, t}

\* C3: on a cached-device read every sector that misses the cache is read
\* from the backing device, and the request completes its original bio, for
\* a bypass request as for one that is not: each sector cached_dev_cache_miss
\* took is covered by a bio sent to the backing device, and the request is
\* never left waiting on its closure with no bio in flight to release it.
C3_MissReadFromBacking ==
    /\ \A x \in search.missed :
          \E b \in bios : b.dev = "backing" /\ x \in b.lo..b.hi
    /\ ~(/\ search.pc = "waiting" /\ search.remaining > 0
         /\ \A b \in bios : b.st # "inflight")

NoDirtyRelease ==
    /\ [][\A n \in Nodes : (btree[n].data /\ ~btree'[n].data) =>
             (~btree'[n].dirty /\ ~btree'[n].write_in_flight)]_vars
    /\ [][\A t \in Threads : (th[t].pc # "fill_copy" /\ th'[t].pc = "fill_copy") =>
             (~btree[th'[t].b].dirty /\ ~btree[th'[t].b].write_in_flight)]_vars

C18_BypassAlways ==
    last.n > 0 =>
        ((\/ dc.detaching
          \/ dc.avail * 100 < dc.capacity * 10
          \/ last.bio.op = "discard"
          \/ dc.mode = "none"
          \/ dc.mode = "writearound" /\ last.bio.op \in {"write", "discard"}
          \/ last.bio.sector % dc.block_size # 0
          \/ (last.bio.size \div 512) % dc.block_size # 0)
         => last.ret)

\* A write whose length alone is off the block size was bypassed, on a device
\* that would cache it otherwise.
C18_Witness ==
    /\ last.n > 0 /\ last.ret
    /\ ~dc.detaching /\ dc.avail = 1 /\ dc.mode = "writeback" /\ ~dc.bypass_torture_test
    /\ dc.sequential_cutoff = 0 /\ last.congested = 0
    /\ last.bio.op = "write" /\ dc.block_size = 2
    /\ last.bio.sector = 0 /\ last.bio.size = 512

\* C19 as stated: a write with REQ_SYNC on a device in writeback mode is never
\* bypassed on account of the congestion test, whatever bch_get_congested
\* returns.
C19_SyncWritebackNeverCongested ==
    (/\ last.n > 0
     /\ dc.mode = "writeback"
     /\ last.bio.op = "write"
     /\ "SYNC" \in last.bio.opf)
    => last.why # "congested"

\* C19 amended: a write with REQ_SYNC on a device in writeback mode is exempt
\* from the sequential and the congestion test when bch_get_congested
\* returns 0; a request is bypassed on account of congestion only when
\* bch_get_congested returns a non-zero value that the task's sequential
\* sectors have reached.
C19_SyncWritebackUncongested ==
    /\ (/\ last.n > 0
        /\ dc.mode = "writeback"
        /\ last.bio.op = "write"
        /\ "SYNC" \in last.bio.opf
        /\ last.congested = 0)
       => last.why \notin {"congested", "sequential"}
    /\ last.why = "congested"
       => /\ last.congested # 0
          /\ Max(task.sequential_io, task.sequential_io_avg) \div 512 >= last.congested

\* A synchronous writeback-mode write went past a sequential cutoff its run
\* had reached, bch_get_congested having returned 0.
C19_Witness ==
    /\ last.n > 0 /\ ~last.ret
    /\ dc.mode = "writeback" /\ last.bio.op = "write" /\ "SYNC" \in last.bio.opf
    /\ last.congested = 0
    /\ dc.sequential_cutoff # 0
    /\ last.bio.size >= dc.sequential_cutoff
    /\ ~dc.detaching /\ dc.avail = 1 /\ ~dc.bypass_torture_test
    /\ last.bio.sector % dc.block_size = 0 /\ (last.bio.size \div 512) % dc.block_size = 0

\* The bios 1..j of the submitter's run are ones the sequential detector
\* decides: aligned, met without congestion and with the task's average below
\* the cutoff, and none of them a synchronous write in writeback mode.
SeqDecides(j) ==
    \A i \in 1..j :
        LET e == stream.bios[i]
        IN  /\ e.congested = 0
            /\ e.avg \div 512 < dc.sequential_cutoff \div 512
            /\ e.bio.sector % dc.block_size = 0
            /\ (e.bio.size \div 512) % dc.block_size = 0
            /\ ~(dc.mode = "writeback" /\ e.bio.op = "write" /\ "SYNC" \in e.bio.opf)

\* The bytes of the run up to and including its bio j.
RunBytes(j) == SumSizes(SubSeq(stream.bios, 1, j))

WriteHandled == dc.attached /\ search.write /\ search.branch # "none"

\* The bio of the request at hand is off the block size.
WriteUnaligned ==
    \/ search.wbio.sector % dc.block_size # 0
    \/ (search.wbio.size \div 512) % dc.block_size # 0

\* A key of the writeback queue lies in the sectors of the request at hand.
WriteOverlaps ==
    \E x \in dc.writeback_keys :
        search.wbio.sector <= x /\ x < search.wbio.sector + search.wbio.size \div 512

\* The request at hand went the bypass way: its bio is on the backing device
\* or back from it, and its write op discards the range from the cache.
WriteBypassed ==
    /\ search.branch = "bypass"
    /\ "DISCARD" \in search.flags /\ "CACHED" \notin search.flags
    /\ \E b \in bios :
          /\ b.dev = "backing" /\ b.op = "write"
          /\ b.lo = search.wbio.sector
          /\ b.hi = search.wbio.sector + search.wbio.size \div 512 - 1

\* C11 as stated: a write whose start or length is not a multiple of the
\* block size goes to bypass, in every state of the writeback queue and in
\* every cache mode.
C11_UnalignedAlwaysBypass ==
    (WriteHandled /\ search.wbio.op = "write" /\ WriteUnaligned) => WriteBypassed

\* C11 amended: a write whose start or length is not a multiple of the block
\* size and that overlaps no key of the writeback queue goes to bypass, in
\* every cache mode: it is sent to the backing device, the write op has the
\* DISCARD flag and not the CACHED flag.
C11_UnalignedBypassUnlessOverlap ==
    (WriteHandled /\ search.wbio.op = "write" /\ WriteUnaligned /\ ~WriteOverlaps)
    => WriteBypassed

\* An unaligned write in a caching mode, uncongested, went to bypass.
C11_Witness ==
    /\ WriteHandled /\ search.wbio.op = "write" /\ WriteUnaligned /\ ~WriteOverlaps
    /\ dc.mode = "writeback" /\ last.congested = 0
    /\ WriteBypassed

\* C12 as stated: a write that overlaps a key of the writeback queue takes
\* the writeback branch, whatever check_should_bypass returned and whatever
\* the bio's operation is.
C12_OverlapAlwaysWriteback ==
    (WriteHandled /\ WriteOverlaps) => search.branch = "writeback"

\* C12 amended: a write other than a discard that overlaps a key of the
\* writeback queue takes the writeback branch, whatever check_should_bypass
\* returned; a discard that overlaps takes the bypass branch.
C12_OverlapWritebackUnlessDiscard ==
    (WriteHandled /\ WriteOverlaps)
    => search.branch = IF search.wbio.op = "discard" THEN "bypass" ELSE "writeback"

\* A write that check_should_bypass wanted bypassed overlapped, in a mode
\* that does no writeback, and took the writeback branch.
C12_Witness ==
    /\ WriteHandled /\ WriteOverlaps
    /\ search.wbio.op = "write" /\ search.bypass /\ dc.mode = "writethrough"
    /\ search.branch = "writeback"

\* C13: a write on the writethrough branch has a clone of its bio submitted
\* to the backing device and its write op flagged CACHED, and its original
\* bio is ended only when both the backing-device write and the write op
\* have ended.
C13_WritethroughWaitsForBoth ==
    (WriteHandled /\ search.branch = "writethrough") =>
        /\ "CACHED" \in search.flags
        /\ \E b \in bios :
              /\ b.dev = "backing" /\ ~b.orig /\ b.op = "write"
              /\ b.lo = search.wbio.sector
              /\ b.hi = search.wbio.sector + search.wbio.size \div 512 - 1
        /\ search.ended <= 1
        /\ search.ended = 1 =>
              /\ search.iop = "done"
              /\ \A b \in bios : b.st # "inflight"

\* A writethrough write has completed.
C13_Witness ==
    /\ WriteHandled /\ search.branch = "writethrough"
    /\ search.orig_bio = "done" /\ search.ended = 1
    /\ search.iop = "done"
    /\ \E b \in bios : b.dev = "backing" /\ b.st = "ok"

\* C14 as stated: on the writeback branch the request path submits no I/O to
\* the backing device.
C14_WritebackNoBackingIo ==
    (WriteHandled /\ search.branch = "writeback") => \A b \in bios : b.dev # "backing"

\* C14 amended: on the writeback branch the data goes to the cache only: the
\* request path submits no bio with data to the backing device; the one bio
\* it can submit there is a flush without data, when the write has
\* REQ_PREFLUSH, and the original bio is ended only when the write op and
\* that flush have ended.
C14_WritebackNoBackingData ==
    (WriteHandled /\ search.branch = "writeback") =>
        /\ "DISCARD" \notin search.flags
        /\ \A b \in bios :
              b.dev = "backing" => (b.hi = b.lo - 1 /\ "PREFLUSH" \in search.wbio.opf)
        /\ "PREFLUSH" \notin search.wbio.opf => bios = {}
        /\ search.ended <= 1
        /\ search.ended = 1 =>
              /\ search.iop = "done"
              /\ \A b \in bios : b.st # "inflight"

\* A writeback write without REQ_PREFLUSH has completed, nothing was sent to
\* the backing device.
C14_Witness ==
    /\ WriteHandled /\ search.branch = "writeback"
    /\ search.orig_bio = "done" /\ search.ended = 1
    /\ bios = {}

\* The request at hand is a bio without data that has REQ_PREFLUSH, on a
\* device with a cache attached.
FlushHandled ==
    /\ dc.attached /\ search.write /\ search.orig_bio # "none"
    /\ search.wbio.size = 0 /\ "PREFLUSH" \in search.wbio.opf

\* Exactly one flush is on the backing device or back from it, and the
\* original bio is ended once, when nothing is in flight any more.
OneFlushThenComplete ==
    /\ Cardinality({b \in bios : b.dev = "backing"}) = 1
    /\ \A b \in bios :
          b.dev = "backing" => (b.hi = b.lo - 1 /\ "PREFLUSH" \in b.opf /\ ~b.orig)
    /\ search.ended <= 1
    /\ search.ended = 1 => \A b \in bios : b.st # "inflight"

\* C15 as stated: a bio with bi_size = 0 and REQ_PREFLUSH submits exactly one
\* flush to the backing device and causes no cache traffic, and the original
\* bio completes afterwards.
C15_FlushNoCacheTraffic ==
    FlushHandled =>
        /\ OneFlushThenComplete
        /\ search.iop = "none"
        /\ \A b \in bios : b.dev # "cache"

\* C15 amended: a bio with bi_size = 0 and REQ_PREFLUSH submits exactly one
\* flush to the backing device and starts no read and no write op on the
\* cache; the only cache traffic is the journal flush it asks for, and the
\* original bio completes after the flush and the journal flush have ended.
C15_FlushOnlyJournalTraffic ==
    FlushHandled =>
        /\ OneFlushThenComplete
        /\ search.iop = "none"
        /\ \A b \in bios : b.dev = "cache" => b.op = "journal"
        /\ search.ended = 1 => search.journal # "flushing"

\* A flush has completed after the backing device's flush and the journal
\* write ended.
C15_Witness ==
    /\ FlushHandled
    /\ search.ended = 1 /\ search.orig_bio = "done"
    /\ search.journal = "done"
    /\ \E b \in bios : b.dev = "backing" /\ b.st = "ok"

\* A flush without data is on the backing device or back from it.
FlushSubmitted == \E b \in bios : b.dev = "backing" /\ b.hi = b.lo - 1

\* C16 as stated: every write with REQ_PREFLUSH or REQ_FUA has the FLUSH flag
\* on its write op and a flush without data submitted to the backing device,
\* in every write branch.
C16_FlushBioInEveryBranch ==
    (WriteHandled /\ search.wbio.opf \cap {"PREFLUSH", "FUA"} # {})
    => ("FLUSH" \in search.flags /\ FlushSubmitted)

\* C16 amended: the write op has the FLUSH flag exactly when the write has
\* REQ_PREFLUSH or REQ_FUA, in every branch; a flush without data is
\* submitted to the backing device exactly on the writeback branch for a
\* write with REQ_PREFLUSH; on the other branches the bio that goes to the
\* backing device carries the write's own flags.
C16_FlushFlagAndWritebackFlush ==
    WriteHandled =>
        /\ "FLUSH" \in search.flags <=> search.wbio.opf \cap {"PREFLUSH", "FUA"} # {}
        /\ FlushSubmitted <=> (search.branch = "writeback" /\ "PREFLUSH" \in search.wbio.opf)
        /\ search.branch # "writeback" =>
              \A b \in bios : b.dev = "backing" => b.opf = search.wbio.opf

\* A writeback write with REQ_FUA alone: flagged FLUSH, no flush submitted.
C16_Witness ==
    /\ WriteHandled /\ search.branch = "writeback"
    /\ search.wbio.opf = {"FUA"}
    /\ "FLUSH" \in search.flags
    /\ bios = {}

\* C17: a discard on a cached device always takes the bypass branch: its
\* write op has the DISCARD flag and not the CACHED flag, and the bio is
\* sent to the backing device exactly if that supports discards; with no
\* cache attached a discard the backing device does not support is ended at
\* once and not submitted.
C17_DiscardBypass ==
    /\ (WriteHandled /\ search.wbio.op = "discard") =>
          /\ search.branch = "bypass"
          /\ "DISCARD" \in search.flags /\ "CACHED" \notin search.flags
          /\ (\E b \in bios : b.dev = "backing") <=> dc.discard
          /\ \A b \in bios : b.dev = "backing" /\ b.op = "discard"
    /\ (~dc.attached /\ search.write /\ search.wbio.op = "discard") =>
          IF dc.discard
          THEN \E b \in bios : b.dev = "backing" /\ b.op = "discard"
          ELSE bios = {} /\ search.orig_bio = "done" /\ search.ended = 1

\* A discard that overlaps the writeback queue, on a backing device without
\* discards: bypass branch, nothing submitted, and it has completed.
C17_Witness ==
    /\ WriteHandled /\ search.wbio.op = "discard" /\ WriteOverlaps
    /\ ~dc.discard /\ bios = {}
    /\ search.branch = "bypass"
    /\ search.orig_bio = "done"

\* C21 as stated: bch_get_congested returns 0 when both thresholds are 0 and
\* otherwise max(0, CONGESTED_MAX - elapsed + counter) less the popcount of
\* the random word.
C21_MaxFormula ==
    out.fn = "bch_get_congested" =>
        IF out.arg.read_us = 0 /\ out.arg.write_us = 0
        THEN out.ret = 0
        ELSE out.ret = Max(0, CONGESTED_MAX - out.arg.elapsed + out.arg.congested)
                       - bitmap_weight(out.arg.rand)

\* C21, amended: bch_get_congested returns 0 when both thresholds are 0, when
\* the elapsed time is negative and when elapsed time plus counter is not
\* negative; otherwise it returns a value of at least 1: with
\* w = CONGESTED_MAX + elapsed + counter, and x = fract_exp_two(w, 6) if w > 0
\* and x = w otherwise, it returns x less the popcount of the random word if
\* that is positive, and 1 if not.
C21_GetCongested ==
    out.fn = "bch_get_congested" =>
        LET a == out.arg
            w == CONGESTED_MAX + a.elapsed + a.congested
            x == IF w > 0 THEN a.f ELSE w
        IN  IF a.read_us = 0 /\ a.write_us = 0 THEN out.ret = 0
            ELSE IF a.elapsed < 0 \/ a.elapsed + a.congested >= 0 THEN out.ret = 0
            ELSE out.ret = Max(1, x - bitmap_weight(a.rand))

C21_Witness ==
    /\ out.fn = "bch_get_congested"
    /\ out.arg.read_us > 0
    /\ out.arg.elapsed > 0 /\ out.arg.elapsed + out.arg.congested < 0
    /\ bitmap_weight(out.arg.rand) = 2
    /\ out.ret = out.arg.f - 2 /\ out.ret > 1

\* C22: a node that bch_btree_node_get returns has its accessed flag set, so
\* that the next shrinker scan passes over it and clears the flag instead of
\* evicting the node.
C22_AccessedSetOnGet ==
    [][\A t \in Threads :
          (th[t].pc # "holding" /\ th'[t].pc = "holding") =>
              btree'[th'[t].b].accessed]_vars

\* The hashed nodes.
Hashed == {n \in Nodes : btree[n].hashed}

\* mca_alloc of thread t goes to mca_cannibalize and comes back with a victim.
CannVictimStep(t) ==
    /\ th[t].pc \in {"alloc_locked", "cann_spin"}
    /\ th'[t].pc \in {"cann_remove", "cann_wait"}

\* A node that is clean (not dirty, not being written), not write-blocked
\* and not locked.
CleanUnlocked(nd) ==
    /\ ~nd.dirty /\ ~nd.write_in_flight /\ ~nd.write_blocked
    /\ nd.intent = 0 /\ ~nd.write /\ nd.readers = {}

\* What C23 says in all its readings: a victim is taken only by the holder of
\* the cannibalize lock and only when no node of the freeable list could be
\* reaped, and it is a hashed node of btree_cache; an mca_alloc that fails
\* with -ENOMEM is by a thread without the lock and leaves the hash table and
\* the LRU as they were; the victim is out of the hash table, with its
\* pointer hash zeroed, when mca_alloc goes on with it, and each such step
\* takes exactly that one node out of the table.
CannibalizeContract ==
    /\ [][\A t \in Threads : CannVictimStep(t) =>
             /\ btree_cache_alloc_lock = t
             /\ first_reap(btree_cache_freeable, FALSE) = 0
             /\ th'[t].b \in Range(btree_cache)
             /\ btree[th'[t].b].hashed]_vars
    /\ [][\A t \in Threads :
             (th[t].pc = "alloc_locked" /\ th'[t].pc = "idle") =>
                 /\ th'[t].ret = "ENOMEM"
                 /\ btree_cache_alloc_lock # t
                 /\ Hashed' = Hashed
                 /\ btree_cache' = btree_cache]_vars
    /\ [][\A t \in Threads :
             (th[t].pc = "cann_remove" /\ th'[t].pc # "cann_remove") =>
                 /\ th'[t].pc = "fill_copy" /\ th'[t].b = th[t].b
                 /\ th[t].b \notin Range(btree_cache)
                 /\ ~btree'[th[t].b].hashed /\ btree'[th[t].b].key = 0
                 /\ Hashed' = Hashed \ {th[t].b}]_vars
    /\ [][(Hashed' # Hashed /\ Hashed' \subseteq Hashed) =>
             \E t \in Threads : th[t].pc = "cann_remove" /\ Hashed \ Hashed' = {th[t].b}]_vars

\* C23 as stated: with that, the victim is a clean, non-write-blocked,
\* unlocked node whenever btree_cache has such a node.
C23_VictimCleanUnlocked ==
    /\ CannibalizeContract
    /\ [][\A t \in Threads : CannVictimStep(t) =>
             ((\E n \in Range(btree_cache) : CleanUnlocked(btree[n]))
                 => CleanUnlocked(btree[th'[t].b]))]_vars

\* C23, amended: with that, the victim is the entry nearest the tail of
\* btree_cache that can be locked for intent and write, is not dirty, has no
\* write in flight, no write error, nothing on its write_blocked list and is
\* not marked noevict, whenever there is such an entry; when there is none it
\* is the entry nearest the tail that meets all of this but may be dirty or
\* being written, and it is written out and waited for.
C23_VictimTailmostReapable ==
    /\ CannibalizeContract
    /\ [][\A t \in Threads : CannVictimStep(t) =>
             LET can(flush) == {i \in 1..Len(btree_cache) :
                                   mca_reap_notrace(btree[btree_cache[i]], flush)}
                 tail(S) == btree_cache[CHOOSE i \in S : \A j \in S : j <= i]
             IN  IF can(FALSE) # {}
                 THEN th'[t].b = tail(can(FALSE)) /\ th'[t].pc = "cann_remove"
                 ELSE /\ can(TRUE) # {} /\ th'[t].b = tail(can(TRUE))
                      /\ th'[t].pc = "cann_wait"
                      /\ ~btree'[th'[t].b].dirty]_vars

\* A victim has been taken while another entry of btree_cache could have
\* been reaped as well.
C23_Witness ==
    \E t \in Threads :
        /\ th[t].pc = "cann_remove" /\ btree_cache_alloc_lock = t
        /\ btree[th[t].b].hashed
        /\ \E n \in Range(btree_cache) : mca_reap_notrace(btree[n], FALSE)

\* C24: mca_cannibalize_lock called while another thread holds the slot
\* returns -ENOMEM without a closure and leaves mca_wait alone; with a
\* closure it puts the closure on mca_wait before its second attempt and
\* returns -EAGAIN only when that attempt finds the slot held by another
\* thread; a closure on mca_wait always has a holder of the
\* slot, or a thread on its way to closure_wake_up, or its own second
\* cmpxchg still to come; and every closure on mca_wait is woken.
C24_NoLostWakeup ==
    /\ [][\A t \in 1..NThreads :
             (th[t].pc = "idle" /\ th'[t].ret = "ENOMEM" /\ th'[t] # th[t]
              /\ btree_cache_alloc_lock' = btree_cache_alloc_lock /\ ~th[t].holds) =>
                 /\ btree_cache_alloc_lock \notin {0, t}
                 /\ mca_wait' = mca_wait]_vars
    /\ [][\A t \in 1..NThreads :
             (th[t].pc = "lk_retry" /\ th'[t].pc = "idle") =>
                 /\ th'[t].ret = "EAGAIN"
                 /\ mca_wait' = mca_wait
                 /\ btree_cache_alloc_lock' \notin {0, t}]_vars
    /\ [][\A t \in 1..NThreads :
             (th[t].pc = "lk_wait" /\ th'[t].pc # "lk_wait") =>
                 th'[t].pc = "lk_retry" /\ t \in mca_wait']_vars
    /\ [](\A t \in 1..NThreads :
             t \in mca_wait =>
                \/ btree_cache_alloc_lock # 0
                \/ \E u \in 1..NThreads : th[u].pc \in {"ul_wake", "lk_raced"}
                \/ th[t].pc = "lk_retry")
    /\ \A t \in 1..NThreads :
          (t \in mca_wait /\ th[t].ret = "EAGAIN") ~> (t \notin mca_wait)

\* A closure waits after -EAGAIN while the thread that held the slot has
\* cleared it and has not yet woken the list.
C24_Witness ==
    \E t, u \in 1..NThreads :
        /\ t # u
        /\ t \in mca_wait /\ th[t].pc = "idle" /\ th[t].ret = "EAGAIN"
        /\ th[u].pc = "ul_wake" /\ btree_cache_alloc_lock = 0

\* C25 as stated: bch_recalc_btree_reserve sets btree_cache_reserve to 16 + 8
\* times the number of roots whose level is at least 1.
C25_ReserveFormula ==
    out.fn = "bch_recalc_btree_reserve" =>
        out.ret = 16 + 8 * Cardinality({i \in DOMAIN out.arg :
                                          out.arg[i] # NoRoot /\ out.arg[i] >= 1})

\* C25, amended: bch_recalc_btree_reserve sets btree_cache_reserve to 16, plus
\* 8 if btree id 0 has no root, plus 8 times the number of roots whose level
\* is at least 1; and the value it computed from the current roots is what
\* btree_cache_reserve holds until the next call.
C25_ReserveWithMissingRoot ==
    out.fn = "bch_recalc_btree_reserve" =>
        /\ out.ret = 16 + (IF out.arg[1] = NoRoot THEN 8 ELSE 0)
                      + 8 * Cardinality({i \in DOMAIN out.arg :
                                           out.arg[i] # NoRoot /\ out.arg[i] >= 1})
        /\ btree_cache_reserve = out.ret

C25_Witness ==
    /\ out.fn = "bch_recalc_btree_reserve"
    /\ out.arg[1] = NoRoot
    /\ \E i, j \in DOMAIN out.arg : i # j /\ out.arg[i] = 0 /\ out.arg[j] = 1
    /\ btree_cache_reserve = 32

\* A walk of bch_mca_scan by thread t ends with the eviction of a hashed node.
ScanEvicts(t) ==
    /\ th[t].pc \in {"scan_locked", "scan_restart"}
    /\ th'[t].pc = "scan_remove"

\* C26 as stated: within one scan no hashed node is evicted while a reapable
\* node remains on the freeable list.
C26_FreeableFirst ==
    [][\A t \in Threads : ScanEvicts(t) =>
          \A n \in Range(btree_cache_freeable') : ~mca_reap_notrace(btree'[n], FALSE)]_vars

\* C26, amended: when bch_mca_scan has taken btree_cache_lock it walks the
\* freeable list once, before btree_cache: it leaves the first three entries
\* where they are and frees the reapable entries after them, in list order,
\* until nr nodes are freed; that walk evicts a hashed node only if the
\* freeable list gave fewer than nr nodes, and then no reapable node is left
\* on the freeable list after its first three entries.
C26_FreeableFirstBeyondThree ==
    [][\A t \in Threads : (th[t].pc = "scan_locked" /\ th'[t].pc # "scan_locked") =>
          LET l == btree_cache_freeable
              nr0 == th[t].nr \div btree_pages
              nr == IF nr0 < mca_can_free THEN nr0 ELSE mca_can_free
              can == {i \in 4..Len(l) : mca_reap_notrace(btree[l[i]], FALSE)}
              took == {i \in can : Cardinality({j \in can : j < i}) < nr}
          IN  /\ \A i \in 1..Len(l) :
                    IF i \in took
                    THEN /\ l[i] \notin Range(btree_cache_freeable')
                         /\ l[i] \in Range(btree_cache_freed')
                         /\ ~btree'[l[i]].data
                    ELSE l[i] \in Range(btree_cache_freeable') /\ btree'[l[i]].data
              /\ th'[t].pc = "scan_remove" =>
                    /\ Cardinality(took) < nr
                    /\ took = can]_vars

\* A scan has freed a node of the freeable list and then evicted a hashed
\* node, three nodes being left on the freeable list.
C26_Witness ==
    \E t \in Threads :
        /\ th[t].pc = "scan_remove" /\ btree[th[t].b].hashed
        /\ Len(btree_cache_freeable) = 3
        /\ Len(btree_cache_freed) = 2

\* C27: a store to a command attribute of a cache set that is not running
\* returns -EPERM and makes no call on the set, for each of journal_flush,
\* blockdev_volume_create, trigger_btree_coalesce, trigger_gc, prune_cache
\* and add_device.
C27_NotRunningEperm ==
    (/\ out.fn = "bch_fs_store"
     /\ out.arg.attr \in CommandAttrs
     /\ ~out.arg.running)
    => /\ out.ret.ret = -EPERM
       /\ out.ret.did = {}
       /\ cset.done = out.arg.done

\* C28: a write of attach <uuid> to a cached device returns -EINVAL when the
\* uuid does not parse; otherwise it returns the size written exactly when
\* bch_cached_dev_attach returned 0 for some set on the list, and a negative
\* value when no set accepted the device, an empty list included.
C28_AttachReturn ==
    (out.fn = "bch_cached_dev_store")
    => LET a == out.arg
           accepted == \E i \in 1..Len(a.res) : a.res[i] = 0
       IN  /\ ~a.ok => out.ret.ret = int_to_ssize(-EINVAL)
           /\ a.ok => /\ (out.ret.ret = int_to_ssize(a.size)) <=> accepted
                      /\ ~accepted => out.ret.ret.neg

\* C29: a read of a range that completes without error after a write of data
\* B to the range has completed without error returns B, whatever the cache
\* mode, the bypass decisions, and the errors and retries of the reads from
\* the cache device.
C29_ReadReturnsWritten ==
    (/\ out.fn = "read"
     /\ out.ret.error = "none"
     /\ out.arg.fn = "write"
     /\ out.arg.ret = "none")
    => out.ret.data = out.arg.arg

\* A step in which a write or a discard with data is taken by
\* __cached_dev_make_request on an attached device.
C30_Request == last'.n = last.n + 1 /\ search'.branch # "none"

\* The counter grows by the sectors of the bio if check_should_bypass
\* returned true, and not at all otherwise.
C30_Counted ==
    dc'.sectors_bypassed =
        dc.sectors_bypassed + (IF last'.ret THEN bio_sectors(last'.bio) ELSE 0)

\* C30 as stated: the bypassed-sectors counter grows by bio_sectors for
\* exactly the requests handled as bypass: a request check_should_bypass
\* counted is not written to the cache, one it did not count is not bypassed.
C30_CountedIffBypassed ==
    [][C30_Request =>
          /\ C30_Counted
          /\ last'.ret <=> search'.branch = "bypass"]_vars

\* C30, amended: the counter grows by bio_sectors for exactly the writes and
\* discards for which check_should_bypass returns true.  Such a request is
\* handled as bypass unless it is a write that overlaps a key of the
\* writeback queue, which is written back to the cache although it was
\* counted; a request that was not counted is never handled as bypass.
C30_CountedBypassedUnlessOverlap ==
    [][C30_Request =>
          LET ov == /\ bch_keybuf_check_overlapping(dc'.writeback_keys, last'.bio)
                    /\ last'.bio.op # "discard"
          IN  /\ C30_Counted
              /\ ~last'.ret => search'.branch # "bypass"
              /\ (last'.ret /\ ~ov) => search'.branch = "bypass"
              /\ (last'.ret /\ ov) => search'.branch = "writeback"]_vars

\* A write that was counted as bypassed is in the writeback branch.
C30_Witness ==
    /\ search.write /\ search.branch = "writeback"
    /\ last.ret /\ last.bio = search.wbio
    /\ dc.sectors_bypassed = bio_sectors(last.bio)
    /\ dc.sectors_bypassed > 0

\* The thread in mca_reap_notrace, and the node it was called on.
ReapThread == out.arg.t
ReapNode == btree[out.arg.b]

\* The write lock is held only together with the intent lock, by the thread
\* in mca_reap_notrace from line 150 on; a call that returned 0 has left its
\* caller with both locks, one that returned -ENOMEM with neither.
ReapLocks ==
    /\ \A n \in Nodes : btree[n].write => btree[n].intent # 0
    /\ out.fn = "mca_reap_notrace" =>
          /\ th[ReapThread].pc \in {"reap_check", "reap_wait", "reap_unlock", "reaped"}
                => ReapNode.intent = ReapThread /\ ReapNode.write
          /\ th[ReapThread].pc = "reap_write"
                => ReapNode.intent = ReapThread
          /\ (out.ret.done /\ out.ret.val = 0 /\ ~out.arg.env)
                => th[ReapThread].pc = "reaped"
          /\ (out.ret.done /\ out.ret.val # 0)
                => out.ret.val = -ENOMEM /\ ReapNode.intent # ReapThread
          /\ (out.ret.done /\ ~out.arg.env)
                => (out.ret.val = 0 <=> mca_reap_notrace(out.arg.node, out.arg.flush))

\* A call that returned -ENOMEM and that nothing else interfered with.
ReapFailed ==
    /\ out.fn = "mca_reap_notrace"
    /\ out.ret.done /\ out.ret.val = -ENOMEM
    /\ ~out.arg.env

\* C31 as stated: mca_reap_notrace takes the write lock only after the
\* intent lock; on 0 the caller holds both; on -ENOMEM it holds neither and
\* the node's lock state, flags and list membership are as before the call.
C31_FailedReapChangesNothing ==
    /\ ReapLocks
    /\ ReapFailed => ReapNode = out.arg.node /\ lists = out.arg.lists

\* C31, amended: as stated, except that a call which got both locks and then
\* rejected the node (write error, noevict, write-blocked, or dirty or being
\* written without flush) has bumped the sequence counter of the node's lock
\* by releasing the write lock; nothing else of the node has changed.
C31_FailedReapBumpsSeq ==
    /\ ReapLocks
    /\ ReapFailed =>
          LET had == six_trylock_intent(out.arg.node) /\ six_trylock_write(out.arg.node)
          IN  /\ ReapNode = [out.arg.node EXCEPT !.seq = IF had THEN @ + 1 ELSE @]
              /\ lists = out.arg.lists

\* A call returned -ENOMEM after it had held both locks.
C31_Witness ==
    /\ ReapFailed
    /\ six_trylock_intent(out.arg.node) /\ six_trylock_write(out.arg.node)
    /\ out.arg.node.noevict
    /\ ReapNode.seq = out.arg.node.seq + 1

\* C32: a request on an attached cached device ends its original bio once,
\* and with bi_error equal to s->iop.error at that moment (bio_complete);
\* the bio is not ended a second time.
C32_EndsOnceWithIopError ==
    [][(dc.attached /\ search.pc # "idle" /\ search'.ended > search.ended)
          => /\ search.ended = 0
             /\ search'.orig_error = search.iop_error]_vars

\* C33: a store to the size of a blockdev volume that fails (the truncate,
\* the update of the inode or the flush of the journal returns an error)
\* leaves i_size and the capacity of the disk as they were.
C33_FailedStoreNoProgress ==
    (out.fn = "bch_blockdev_volume_store" /\ out.ret < 0)
    => /\ cset.volume.i_size = out.arg.volume.i_size
       /\ cset.volume.capacity = out.arg.volume.capacity

\* C34: a read that has read a dirty extent from the cache is not sent to the
\* backing device by cached_dev_read_error: only requests that read clean
\* data are resubmitted.
C34_NoRetryOfDirtyRead ==
    [][search'.resubmitted > search.resubmitted => ~search.read_dirty_data]_vars

\* C35: the assertions of mca_alloc and mca_hash_remove hold in every
\* interleaving of fills, cannibalisation, node writes and shrinker scans: a
\* node that mca_alloc hands out at "out_unlock" (from the freeable list, the
\* freed list or a fresh allocation) has a zero pointer hash, is in no hash
\* chain and has no write in flight, and a node that mca_hash_remove is applied
\* to (by bch_mca_scan or after mca_cannibalize) is not dirty.
C35_OutUnlock(t) ==
    /\ th[t].pc = "alloc_locked"
    /\ th'[t].pc = "fill_copy"
C35_HashRemove(t) ==
    /\ th[t].pc \in {"scan_remove", "cann_remove"}
    /\ th'[t].pc # th[t].pc
C35_AllocAssertionsHold ==
    [][\A t \in Threads :
          /\ C35_OutUnlock(t) => /\ btree[th'[t].b].key = 0
                                 /\ ~btree[th'[t].b].hashed
                                 /\ ~btree[th'[t].b].write_in_flight
          /\ C35_HashRemove(t) => ~btree[th[t].b].dirty]_vars
\* A thread without the cannibalize lock has been handed a node by mca_alloc
\* while a scan holds an evicted node, already on the freed list, that it has
\* not yet taken out of the hash table.
C35_Witness ==
    \E t, u \in Threads :
        /\ t # u
        /\ th[t].pc = "fill_copy"
        /\ btree_cache_alloc_lock # t
        /\ th[u].pc = "scan_remove"
        /\ btree[th[u].b].hashed
        /\ th[u].b \in Range(btree_cache_freed)

\* C36: while some thread holds the cannibalize lock the shrinker evicts
\* nothing: a step taken with btree_cache_alloc_lock non-NULL frees no node's
\* data, and a bch_mca_count that runs then reports 0.
C36_NoEvictionWhileCannibalizing ==
    [][btree_cache_alloc_lock # 0 =>
          /\ \A n \in Nodes : btree[n].data => btree'[n].data
          /\ \A t \in Threads : th'[t].ret = "count" /\ th[t] # th'[t] => th'[t].nr = 0]_vars

\* C37: after any sequence of init, mca_alloc, node fill, shrinker scan and
\* cannibalise operations btree_cache_used is the number of containers that
\* have a data buffer, no node on the freed list has a buffer and every node
\* on the freeable list has one.
C37_UsedCountsDataBuffers ==
    /\ btree_cache_used = Cardinality({n \in Nodes : btree[n].data})
    /\ \A n \in Range(btree_cache_freed) : ~btree[n].data
    /\ \A n \in Range(btree_cache_freeable) : btree[n].data
\* The freed list holds a container whose buffer a scan has freed or
\* mca_data_alloc could not allocate, while a thread fills a node with a
\* buffer that mca_alloc has handed it.
C37_Witness ==
    /\ btree_cache_freed # <<>>
    /\ \E t \in Threads : /\ th[t].pc = "fill_copy"
                          /\ btree[th[t].b].data
                          /\ th[t].b \notin Range(btree_cache_freed)

\* C38: each request that got a reference with cached_dev_get puts it exactly
\* once, after its original bio has been completed: a request whose original
\* bio has been ended and that has nothing in flight any more has run to its
\* cached_dev_put.  cached_dev_get never succeeds once the count is zero, the
\* count is never negative, and the detach work is scheduled exactly once, by
\* the put that brings the count to zero.
RequestQuiet ==
    /\ search.orig_bio = "done"
    /\ search.iop # "inflight"
    /\ search.journal # "flushing"
    /\ \A b \in bios : b.st # "inflight"
    /\ ~(search.pc = "waiting" /\ search.remaining = 0)
    /\ search.pc \notin {"cached_dev_write_complete", "cached_dev_bio_complete"}
C38_ReferencePutOnce ==
    [][/\ dc'.count >= 0
       /\ dc.count = 0 => dc'.count = 0
       /\ dc'.detach = (IF dc'.count = 0 THEN 1 ELSE 0)
       /\ dc'.count < dc.count /\ th'[Submitter] # th[Submitter] => search.orig_bio = "done"
       /\ (th'[Submitter].pc = "request" /\ RequestQuiet') => search'.pc = "idle"]_vars

\* C39: __bch_btree_verify releases the locks it takes on every path on
\* which it returns: once every call has returned, whether after the
\* comparison, for nochanges or because no device could be picked,
\* verify_lock is free and no node's io lock is held.
C39_VerifyReleasesLocks ==
    (\A t \in Threads : th[t].pc = "idle")
    => /\ cset.verify_lock = 0
       /\ \A n \in Nodes : ~btree[n].write_in_flight

\* C40: a read of a btree dump file copies at most the requested size to the
\* user buffer, and successive reads neither lose nor duplicate output: what
\* the reader has got so far is the beginning of the dump that one read large
\* enough for the whole tree returns, whatever the sizes of the reads, and it
\* is that whole dump once a read returns 0.
DumpSize == 3 * (NDumpKeys + NDumpNodes) + 1
DumpAll(file) == dump_read_fn(file, dump_open, DumpSize).ubuf
IsPrefix(p, q) == Len(p) <= Len(q) /\ p = SubSeq(q, 1, Len(p))
C40_ReadsAreTheDump ==
    (out.fn \in DumpFiles /\ out.ret.n > 0)
    => /\ out.arg.ret <= out.ret.size
       /\ Len(out.arg.ubuf) = out.arg.ret
       /\ IsPrefix(out.ret.all, DumpAll(out.fn))
       /\ out.arg.ret = 0 => out.ret.all = DumpAll(out.fn)

====
